---- MODULE Spec2Model ----
(***************************************************************************)
(* Brake digital twin: PhysicsModel, HybridDigitalTwin, the sequence       *)
(* predictors (LSTMModel, GRUModel, TCNModel) and ModelEvaluator.          *)
(*                                                                         *)
(* IEEE doubles are modelled as fixed-point integers, rounded to nearest.  *)
(* Units:                                                                  *)
(*   temperature            milli-degC        (25 degC    = 25000)         *)
(*   power                  deci-watt         (5000 W     = 50000)         *)
(*   wear, pad thickness    1e-5 mm           (0.1 mm/lap = 10000)         *)
(*   laps                   milli-laps        (200 laps   = 200000)        *)
(*   weights, scores, confidences, factors    1e-4  (1.0  = 10000)         *)
(*   relative errors, r2    1e-4              (1.0        = 10000)         *)
(*   accuracy, interpretability, milliseconds 1e-2  (100  = 10000)         *)
(* NaN is a distinguished value that every arithmetic operator, Math.max   *)
(* and Math.min propagate, and that every comparison answers FALSE on.     *)
(***************************************************************************)
EXTENDS Integers, Sequences, FiniteSets, TLC

VARIABLES
    physicsModel,   \* the fields of the PhysicsModel instance
    pcall,          \* the last call on the PhysicsModel and what it returned
    ref,            \* an earlier PhysicsModel.predict call, kept for comparison
    ss,             \* PhysicsModel.getSteadyState in progress: locals and position
    twin,           \* HybridDigitalTwin: adaptiveWeights and calibrationFactor
    hcall,          \* the last call on the HybridDigitalTwin and its outcome
    scall,          \* the last predict call on a sequence predictor
    ecall,          \* ModelEvaluator: evaluateModels in progress and its results
    fcall,          \* the last two calls of a method taken on its own
    seqModels,      \* the weights of the LSTMModel, GRUModel and TCNModel instances
    store,          \* the state of useBrakeSystemStore
    timers,         \* the callbacks the store handed to setTimeout, not yet run
    stcall          \* the last store action or callback and what it met

vars ==
    <<physicsModel, pcall, ref, ss, twin, hcall, scall, ecall, fcall, seqModels, store,
      timers, stcall>>

----------------------------------------------------------------------------
(* Number model *)

NaN == -999999999

IsNaN(x) == x = NaN

\* <<q, t>> with t < 2 * c brought to <<q', r>> with r < c
Carry(q, t, c) == <<q + t \div c, t % c>>

\* a * b = q * c + r from h = <<q, r>> of a * (b \div 2)
Doubled(h, a, b, c) == Carry(2 * h[1] + (b % 2) * (a \div c), 2 * h[2] + (b % 2) * (a % c), c)

\* a * b = q * c + r with 0 <= r < c, for naturals a, b and c > 0, computed
\* without leaving 32 bits: directly when (a % c) * b fits, else by halving b.
RECURSIVE MulDivNat(_, _, _)
MulDivNat(a, b, c) ==
    IF b = 0 THEN <<0, 0>>
    ELSE IF c <= 2147483647 \div b
    THEN <<(a \div c) * b + ((a % c) * b) \div c, ((a % c) * b) % c>>
    ELSE Doubled(MulDivNat(a, b \div 2, c), a, b, c)

Abs(x) == IF x < 0 THEN -x ELSE x

\* quotient m[1] with remainder m[2] of a division by c, to the nearest unit
Rounded(m, c) == IF 2 * m[2] >= c THEN m[1] + 1 ELSE m[1]

\* (a * b) / c rounded to the nearest unit, half away from zero; c > 0.
MulDiv(a, b, c) ==
    IF (a < 0) = (b < 0)
    THEN Rounded(MulDivNat(Abs(a), Abs(b), c), c)
    ELSE -Rounded(MulDivNat(Abs(a), Abs(b), c), c)

\* Math.max and Math.min: NaN if either argument is NaN.
MathMax(a, b) == IF IsNaN(a) \/ IsNaN(b) THEN NaN ELSE IF a >= b THEN a ELSE b

MathMin(a, b) == IF IsNaN(a) \/ IsNaN(b) THEN NaN ELSE IF a <= b THEN a ELSE b

\* Math.abs
MathAbs(x) == IF IsNaN(x) THEN NaN ELSE Abs(x)

----------------------------------------------------------------------------
(* PhysicsModel: material constants and disc properties *)

FRICTION_COEFFICIENT_E1 == 4          \* 0.4
SPECIFIC_HEAT_CAPACITY == 1200        \* J/(kg K)
CONVECTION_COEFFICIENT == 25          \* W/(m2 K)
WEAR_COEFFICIENT_E10 == 25            \* 2.5e-9
DISC_RADIUS_E2 == 15                  \* 0.15 m
DISC_MASS_E1 == 85                    \* 8.5 kg
SURFACE_AREA_E2 == 5                  \* 0.05 m2
PI_E6 == 3141593                      \* Math.PI

\* The instance fields of a freshly constructed PhysicsModel.
NewPhysicsModel ==
    [FRICTION_COEFFICIENT   |-> FRICTION_COEFFICIENT_E1,
     SPECIFIC_HEAT_CAPACITY |-> SPECIFIC_HEAT_CAPACITY,
     CONVECTION_COEFFICIENT |-> CONVECTION_COEFFICIENT,
     WEAR_COEFFICIENT       |-> WEAR_COEFFICIENT_E10,
     DISC_RADIUS            |-> DISC_RADIUS_E2,
     DISC_MASS              |-> DISC_MASS_E1,
     SURFACE_AREA           |-> SURFACE_AREA_E2]

DEFAULT_PREVIOUS_TEMP == 25000        \* previousTemp = 25
REFERENCE_TEMP == 25000               \* the 25 in (newTemperature - 25)
BASE_HARDNESS == 150000               \* 150
MIN_HARDNESS == 50000                 \* Math.max(hardnessTemp, 50)
LAP_SECONDS == 90                     \* 90-second lap
MIN_WEAR_PER_LAP == 100               \* 0.001 mm/lap
MAX_WEAR_RATE == 10000                \* 0.1 mm/lap
MIN_PAD_THICKNESS == 200000           \* 2 mm
MAX_PHYSICS_LAPS == 200000            \* 200 laps
MAX_HEAT_GENERATION == 50000          \* 5000 W
MAX_COOLING_RATE == 10000             \* 1000 W

\* laps left as they are, without rounding
Unrounded(laps) == laps

\* Math.round of a number of laps, which are held in 1e-3
MathRound(laps) == MulDiv(laps, 1, 1000) * 1000

\* previousTemp = 25 when the caller passes no previousTemperature
PreviousOrDefault(hasPrevious, previousTemperature) ==
    IF hasPrevious THEN previousTemperature ELSE DEFAULT_PREVIOUS_TEMP

\* inputs.currentState is undefined or null: reading inputs.wheelSpeed raises
\* a TypeError.
PhysicsThrows(inputs) == ~inputs.present

\* PhysicsModel.predict(inputs, previousTemp) on the instance `self`.
PhysicsPredict(self, inputs, previousTemp) ==
    LET \* rad/s, in 1e-3: wheelSpeed * 2 * PI / 60
        wheelSpeedRad == MulDiv(inputs.wheelSpeed * 2, PI_E6, 60000)
        \* Pa: brakePressure * 100000
        pressurePa == inputs.brakePressure * 100000
        \* m2, in 1e-6: padArea / 10000
        padAreaM2 == MulDiv(inputs.padArea, 1000000, 10000)
        \* N
        normalForce == MulDiv(pressurePa, padAreaM2, 1000000)
        frictionForce == MulDiv(normalForce, self.FRICTION_COEFFICIENT, 10)
        \* m/s, in 1e-3
        linearVelocity == MulDiv(wheelSpeedRad, self.DISC_RADIUS, 100)
        \* W, in 1e-1
        powerDissipated == MulDiv(frictionForce, linearVelocity, 100)
        heatGeneration == powerDissipated
        \* J/K
        thermalCapacity == MulDiv(self.DISC_MASS, self.SPECIFIC_HEAT_CAPACITY, 10)
        \* W, in 1e-1
        convectiveCooling ==
            MulDiv(self.CONVECTION_COEFFICIENT * self.SURFACE_AREA,
                   previousTemp - inputs.ambientTemp, 10000)
        netHeatRate == heatGeneration - convectiveCooling
        \* degC, in 1e-3
        tempIncrease == MulDiv(netHeatRate * inputs.timeStep, 100, thermalCapacity)
        newTemperature == previousTemp + tempIncrease
        \* m, in 1e-3
        slidingDistance == linearVelocity * inputs.timeStep
        hardnessTemp == BASE_HARDNESS - MulDiv(newTemperature - REFERENCE_TEMP, 1, 10)
        hardness == MathMax(hardnessTemp, MIN_HARDNESS)
        \* m3, in 1e-12
        wearVolume ==
            MulDiv(self.WEAR_COEFFICIENT * 100 * normalForce, slidingDistance, hardness)
        \* m, in 1e-8
        wearDepth == MulDiv(wearVolume, 100, padAreaM2)
        \* mm/s, in 1e-5
        wearRateMm == MulDiv(wearDepth, 1, inputs.timeStep)
        wearPerLap == MathMax(MIN_WEAR_PER_LAP, wearRateMm * LAP_SECONDS)
        usableThickness == MathMax(0, inputs.padThickness - MIN_PAD_THICKNESS)
        predictedLaps ==
            MathMax(0, MathMin(MAX_PHYSICS_LAPS, MulDiv(usableThickness, 1000, wearPerLap)))
        \* strain, in 1e-9, and MPa, in 1e-2
        thermalExpansion == 12 * (newTemperature - REFERENCE_TEMP)
        thermalStress == MulDiv(thermalExpansion, 2, 100)
        coolingRate == convectiveCooling
    IN  [temperature            |-> MathMax(inputs.ambientTemp, newTemperature),
         wearRate               |-> MathMax(MIN_WEAR_PER_LAP, MathMin(MAX_WEAR_RATE, wearPerLap)),
         heatGeneration         |-> MathMax(0, MathMin(MAX_HEAT_GENERATION, heatGeneration)),
         coolingRate            |-> MathMax(0, MathMin(MAX_COOLING_RATE, coolingRate)),
         predictedLapsRemaining |-> MathRound(predictedLaps),
         thermalStress          |-> MathMax(0, thermalStress)]

NoOutput ==
    [temperature |-> 0, wearRate |-> 0, heatGeneration |-> 0, coolingRate |-> 0,
     predictedLapsRemaining |-> 0, thermalStress |-> 0]

\* predict as it would be if it adopted the disc mass of its inputs.
PhysicsPredictCallAdoptingMass(self, inputs, previousTemp) ==
    [ret |-> PhysicsPredict(self, inputs, previousTemp),
     self |-> [self EXCEPT !.DISC_MASS = inputs.discMass]]

\* What a call of predict leaves behind: its return value and the instance
\* fields after the call. predict assigns to no field of `this`.
PhysicsPredictCall(self, inputs, previousTemp) ==
    [ret |-> PhysicsPredict(self, inputs, previousTemp), self |-> self]

\* The loop of PhysicsModel.simulateOverTime: `steps` predict calls, each fed
\* the temperature the one before returned. Returns the results and the
\* instance fields after the last call.
RECURSIVE SimulateLoop(_, _, _, _, _)

\* one pass of the loop that leaves currentTemp as it was
SimulateStepKeepingTemp(c, inputs, steps, results) ==
    SimulateLoop(c.self, inputs, steps - 1, inputs.ambientTemp, Append(results, c.ret))

\* one pass of the loop, c being what its predict call left behind
SimulateStep(c, inputs, steps, results) ==
    SimulateLoop(c.self, inputs, steps - 1, c.ret.temperature, Append(results, c.ret))

SimulateLoop(self, inputs, steps, currentTemp, results) ==
    IF steps <= 0 THEN [ret |-> results, self |-> self]
    ELSE SimulateStep(PhysicsPredictCall(self, inputs, currentTemp), inputs, steps, results)

\* PhysicsModel.simulateOverTime(inputs, duration, initialTemp)
SimulateOverTime(self, inputs, duration, initialTemp) ==
    SimulateLoop(self, inputs, duration \div inputs.timeStep, initialTemp, <<>>)

STEADY_START_TEMP == 25000            \* let currentTemp = 25
STEADY_TOLERANCE == 100               \* 0.1 degC
MAX_ITERATIONS == 100                 \* maxIterations

\* The loop condition with the cap tested one pass late.
SteadyStateContinuesLate(currentTemp, previousTemp, iterations) ==
    /\ Abs(currentTemp - previousTemp) > STEADY_TOLERANCE
    /\ iterations <= MAX_ITERATIONS

\* The condition of the while loop of getSteadyState.
SteadyStateContinues(currentTemp, previousTemp, iterations) ==
    /\ Abs(currentTemp - previousTemp) > STEADY_TOLERANCE
    /\ iterations < MAX_ITERATIONS

----------------------------------------------------------------------------
(* Sequence predictors: LSTMModel, GRUModel, TCNModel *)

\* NaN-propagating (x * num) / den
Scale(x, num, den) == IF IsNaN(x) THEN NaN ELSE MulDiv(x, num, den)

\* NaN-propagating sum
Plus(a, b) == IF IsNaN(a) \/ IsNaN(b) THEN NaN ELSE a + b

\* arr[i] of a JavaScript array, 1-based here: undefined past the end, which
\* arithmetic turns into NaN.
Elem(arr, i) == IF i <= Len(arr) THEN arr[i] ELSE NaN

\* arr.slice(-n)
SliceLast(arr, n) ==
    IF Len(arr) <= n THEN arr ELSE SubSeq(arr, Len(arr) - n + 1, Len(arr))

\* The prediction all three models return for a missing or empty sequence.
DEFAULT_TEMPERATURE == 450000         \* 450
DEFAULT_WEAR_RATE == 10000            \* 0.1
DEFAULT_LAPS == 45000                 \* 45
DEFAULT_CONFIDENCE == 5000            \* 0.5

\* LSTMModel.getDefaultPrediction
GetDefaultPrediction ==
    [temperature |-> DEFAULT_TEMPERATURE, wearRate |-> DEFAULT_WEAR_RATE,
     predictedLapsRemaining |-> DEFAULT_LAPS, confidence |-> DEFAULT_CONFIDENCE,
     attentionWeights |-> 0]

\* LSTMModel.normalizeInputs / GRUModel.normalize / TCNModel.normalize:
\* one row per wheelSpeed sample, in 1e-4.
NormalizeInputs(sequence) ==
    [i \in 1 .. Len(sequence.wheelSpeed) |->
        << Scale(sequence.wheelSpeed[i], 10000, 3000),
           Scale(Elem(sequence.brakePressure, i), 10000, 300),
           Scale(Plus(Elem(sequence.ambientTemp, i), 50000), 10, 1200),
           Scale(Elem(sequence.padThickness, i), 1, 150) >>]

LSTM_SEQUENCE_LENGTH == 10            \* sequenceLength
LSTM_MIN_SEQUENCE == 3                \* sequenceData.length < 3

\* lastInput unshifted until the window holds sequenceLength rows
RECURSIVE PadFront(_, _, _)
PadFront(data, row, n) == IF Len(data) >= n THEN data ELSE PadFront(<<row>> \o data, row, n)

\* the window cut one row longer than sequenceLength
LSTMWindowOfEleven(sequence) ==
    SliceLast(NormalizeInputs(sequence), LSTM_SEQUENCE_LENGTH + 1)

\* The window LSTMModel.predict runs on: the last sequenceLength rows, padded
\* with copies of the last row when fewer than 3 are left.
LSTMWindow(sequence) ==
    LET sequenceData == SliceLast(NormalizeInputs(sequence), LSTM_SEQUENCE_LENGTH)
    IN  IF Len(sequenceData) < LSTM_MIN_SEQUENCE
        THEN PadFront(sequenceData, sequenceData[Len(sequenceData)], LSTM_SEQUENCE_LENGTH)
        ELSE sequenceData

RowHasNaN(row) == \E k \in 1 .. 4 : IsNaN(row[k])

WindowHasNaN(data) == \E t \in 1 .. Len(data) : RowHasNaN(data[t])

\* processBidirectionalLSTM, computeAttention and the output layer. The
\* weights are random draws, so for finite rows the raw outputs and the peak
\* attention weight are whatever `net` holds; a NaN in any row of the window
\* reaches every hidden state, every attention weight and every raw output.
LSTMForward(sequenceData, net) ==
    IF WindowHasNaN(sequenceData)
    THEN [rawOutput |-> <<NaN, NaN, NaN>>, attentionScore |-> NaN,
          attentionWeights |-> Len(sequenceData)]
    ELSE [rawOutput |-> net.rawOutput, attentionScore |-> net.attentionScore,
          attentionWeights |-> Len(sequenceData)]

\* LSTMModel.denormalizeTemperature: 25 + normalized * 1175
DenormalizeTemperature(normalized) == Plus(25000, Scale(normalized, 1175, 10))

\* LSTMModel.denormalizeWearRate: Math.max(0, normalized * 0.5)
DenormalizeWearRate(normalized) == MathMax(0, Scale(normalized, 5, 1))

\* LSTMModel.denormalizeLapsRemaining: Math.max(0, normalized * 200)
DenormalizeLapsRemaining(normalized) == MathMax(0, Scale(normalized, 200, 10))

RECURSIVE SumSeq(_)
SumSeq(values) == IF values = <<>> THEN 0 ELSE Head(values) + SumSeq(Tail(values))

\* LSTMModel.calculateVariance
CalculateVariance(values) ==
    IF Len(values) = 0 THEN 0
    ELSE LET mean == MulDiv(SumSeq(values), 1, Len(values))
             sq == [i \in 1 .. Len(values) |-> (values[i] - mean) * (values[i] - mean)]
         IN  MulDiv(SumSeq(sq), 1, Len(values))

\* LSTMModel.calculateAdvancedConfidence
CalculateAdvancedConfidence(sequence, attentionScore) ==
    LET recentSpeeds == SliceLast(sequence.wheelSpeed, 5)
        speedVariance == CalculateVariance(recentSpeeds)
        speedConsistency == MathMax(0, 10000 - MulDiv(speedVariance, 10000, 100000))
        hasValidData == /\ Len(sequence.wheelSpeed) >= 5
                        /\ Len(sequence.brakePressure) >= 5
                        /\ Len(sequence.padThickness) >= 5
        dataQuality == IF hasValidData THEN 10000 ELSE 5000
        confidence == Plus(Scale(attentionScore, 4, 10),
                           MulDiv(speedConsistency, 3, 10) + MulDiv(dataQuality, 3, 10))
    IN  MathMax(1000, MathMin(9900, confidence))

\* The end of LSTMModel.predict: the forward pass f denormalised and clamped.
LSTMOutputs(sequence, f) ==
    LET temperature == DenormalizeTemperature(f.rawOutput[1])
        wearRate == DenormalizeWearRate(f.rawOutput[2])
        predictedLapsRemaining == DenormalizeLapsRemaining(f.rawOutput[3])
        confidence == CalculateAdvancedConfidence(sequence, f.attentionScore)
    IN  [temperature |-> MathMax(25000, MathMin(1200000, temperature)),
         wearRate |-> MathMax(0, MathMin(100000, wearRate)),
         predictedLapsRemaining |-> MathMax(0, MathMin(200000, predictedLapsRemaining)),
         confidence |-> MathMax(1000, MathMin(9900, confidence)),
         attentionWeights |-> f.attentionWeights]

\* LSTMModel.predict(sequence), for the forward pass outcome `net`.
LSTMPredict(sequence, net) ==
    IF ~sequence.present \/ ~sequence.hasWheelSpeed \/ Len(sequence.wheelSpeed) = 0
    THEN GetDefaultPrediction
    ELSE LSTMOutputs(sequence, LSTMForward(LSTMWindow(sequence), net))

GRU_CONFIDENCE == 6000                \* 0.6
TCN_CONFIDENCE == 5500                \* 0.55

\* The linear head shared by GRUModel.predict and TCNModel.predict:
\* 25 + clamp01(y0) * 1175, clamp01(y1) * 0.5, clamp01(y2) * 200.
HeadOutputs(sequence, y, confidence) ==
    LET yy == IF WindowHasNaN(NormalizeInputs(sequence)) THEN <<NaN, NaN, NaN>> ELSE y
    IN  [temperature |-> Plus(25000, Scale(MathMax(0, MathMin(10000, yy[1])), 1175, 10)),
         wearRate |-> Scale(MathMax(0, MathMin(10000, yy[2])), 5, 1),
         predictedLapsRemaining |-> Scale(MathMax(0, MathMin(10000, yy[3])), 200, 10),
         confidence |-> confidence,
         attentionWeights |-> 0]

\* The early return of GRUModel.predict and TCNModel.predict.
InlineDefaultPrediction ==
    [temperature |-> 450000, wearRate |-> 10000, predictedLapsRemaining |-> 45000,
     confidence |-> 5000, attentionWeights |-> 0]

\* GRUModel.predict and TCNModel.predict read sequence.wheelSpeed.length
\* without testing sequence.wheelSpeed: a TypeError when the object has none.
HeadModelThrows(sequence) == sequence.present /\ ~sequence.hasWheelSpeed

\* GRUModel.predict without its early return
GRUPredictUnguarded(sequence, net) == HeadOutputs(sequence, net.rawOutput, GRU_CONFIDENCE)

\* GRUModel.predict(sequence), for the head input `net`.
GRUPredict(sequence, net) ==
    IF ~sequence.present \/ Len(sequence.wheelSpeed) = 0
    THEN InlineDefaultPrediction
    ELSE HeadOutputs(sequence, net.rawOutput, GRU_CONFIDENCE)

\* TCNModel.predict(sequence), for the head input `net`.
TCNPredict(sequence, net) ==
    IF ~sequence.present \/ Len(sequence.wheelSpeed) = 0
    THEN InlineDefaultPrediction
    ELSE HeadOutputs(sequence, net.rawOutput, TCN_CONFIDENCE)

----------------------------------------------------------------------------
(* HybridDigitalTwin *)

BASE_PHYSICS_WEIGHT == 6000           \* adaptiveWeights.physics = 0.6
BASE_LSTM_WEIGHT == 4000              \* adaptiveWeights.lstm = 0.4
INITIAL_CALIBRATION == 10000          \* calibrationFactor = 1.0

\* The fields of a freshly constructed HybridDigitalTwin.
NewHybridDigitalTwin ==
    [physicsModel |-> NewPhysicsModel,
     adaptiveWeights |-> [physics |-> BASE_PHYSICS_WEIGHT, lstm |-> BASE_LSTM_WEIGHT],
     calibrationFactor |-> INITIAL_CALIBRATION]

\* a < b and a > b of doubles: FALSE when either is NaN
Less(a, b) == ~IsNaN(a) /\ ~IsNaN(b) /\ a < b

Greater(a, b) == ~IsNaN(a) /\ ~IsNaN(b) /\ a > b

\* NaN-propagating difference
Minus(a, b) == IF IsNaN(a) \/ IsNaN(b) THEN NaN ELSE a - b

\* calculateAnomalyScore taking the distance between the two normalised
\* differences instead of their mean
CalculateAnomalyScoreOfDistance(tempDiff, wearDiff) ==
    MathAbs(Minus(MathMin(Scale(tempDiff, 10000, 200000), 10000),
                  MathMin(Scale(wearDiff, 10000, 10000), 10000)))

\* HybridDigitalTwin.calculateAnomalyScore
CalculateAnomalyScore(tempDiff, wearDiff) ==
    LET normalizedTempDiff == MathMin(Scale(tempDiff, 10000, 200000), 10000)
        normalizedWearDiff == MathMin(Scale(wearDiff, 10000, 10000), 10000)
    IN  Scale(Plus(normalizedTempDiff, normalizedWearDiff), 1, 2)

ANOMALY_THRESHOLD == 3000             \* anomalyScore > 0.3
CONFIDENCE_THRESHOLD == 7000          \* lstmConfidence < 0.7
MAX_PHYSICS_WEIGHT == 8000            \* Math.min(0.8, ...)

\* adaptWeights without the cap of 0.8 on the normalised physics weight
AdaptWeightsUncapped(self, anomalyScore, lstmConfidence) ==
    LET base == self.adaptiveWeights.physics
        lstmWeight == self.adaptiveWeights.lstm
        afterAnomaly == IF Greater(anomalyScore, ANOMALY_THRESHOLD)
                        THEN Plus(base, Scale(anomalyScore, 2, 10)) ELSE base
        afterConfidence ==
            IF Less(lstmConfidence, CONFIDENCE_THRESHOLD)
            THEN Plus(afterAnomaly, Scale(CONFIDENCE_THRESHOLD - lstmConfidence, 15, 100))
            ELSE afterAnomaly
        totalWeight == Plus(afterConfidence, lstmWeight)
        physicsWeight == IF IsNaN(totalWeight) THEN NaN
                         ELSE MulDiv(afterConfidence, 10000, totalWeight)
    IN  [physics |-> physicsWeight, lstm |-> Minus(10000, physicsWeight)]

\* HybridDigitalTwin.adaptWeights
AdaptWeights(self, anomalyScore, lstmConfidence) ==
    LET base == self.adaptiveWeights.physics
        lstmWeight == self.adaptiveWeights.lstm
        afterAnomaly == IF Greater(anomalyScore, ANOMALY_THRESHOLD)
                        THEN Plus(base, Scale(anomalyScore, 2, 10)) ELSE base
        afterConfidence ==
            IF Less(lstmConfidence, CONFIDENCE_THRESHOLD)
            THEN Plus(afterAnomaly, Scale(CONFIDENCE_THRESHOLD - lstmConfidence, 15, 100))
            ELSE afterAnomaly
        totalWeight == Plus(afterConfidence, lstmWeight)
        physicsWeight ==
            MathMin(MAX_PHYSICS_WEIGHT,
                    IF IsNaN(totalWeight) THEN NaN
                    ELSE MulDiv(afterConfidence, 10000, totalWeight))
    IN  [physics |-> physicsWeight, lstm |-> Minus(10000, physicsWeight)]

\* a * w for a weight or factor w in 1e-4
Times(a, w) == IF IsNaN(a) \/ IsNaN(w) THEN NaN ELSE MulDiv(a, w, 10000)

\* combinePredictions dividing the blend temperature by the calibration
\* factor
CombinePredictionsDividing(self, physics, lstm, weights) ==
    [temperature |->
        MulDiv(Plus(Times(physics.temperature, weights.physics),
                    Times(lstm.temperature, weights.lstm)),
               10000, self.calibrationFactor),
     wearRate |-> Plus(Times(physics.wearRate, weights.physics),
                       Times(lstm.wearRate, weights.lstm)),
     predictedLapsRemaining |->
        Plus(Times(physics.predictedLapsRemaining, weights.physics),
             Times(lstm.predictedLapsRemaining, weights.lstm))]

\* HybridDigitalTwin.combinePredictions
CombinePredictions(self, physics, lstm, weights) ==
    LET temperature == Plus(Times(physics.temperature, weights.physics),
                            Times(lstm.temperature, weights.lstm))
        wearRate == Plus(Times(physics.wearRate, weights.physics),
                         Times(lstm.wearRate, weights.lstm))
        predictedLapsRemaining ==
            Plus(Times(physics.predictedLapsRemaining, weights.physics),
                 Times(lstm.predictedLapsRemaining, weights.lstm))
    IN  [temperature |-> Times(temperature, self.calibrationFactor),
         wearRate |-> wearRate,
         predictedLapsRemaining |-> predictedLapsRemaining]

MAX_TEMPERATURE == 1200000            \* Math.min(1200, temperature)
MAX_HYBRID_WEAR == 100000             \* Math.min(1.0, wearRate)
MIN_WEAR_FOR_LAPS == 100              \* padThickness / 0.001
HIGH_WEAR == 10000                    \* wearRate > 0.1
CROSS_CHECK_LAPS == 50000             \* predictedLapsRemaining > 50

\* HybridDigitalTwin.applyDomainCorrections
ApplyDomainCorrections(prediction, inputs) ==
    LET temperature ==
            MathMax(inputs.ambientTemp, MathMin(MAX_TEMPERATURE, prediction.temperature))
        wearRate == MathMax(0, MathMin(MAX_HYBRID_WEAR, prediction.wearRate))
        maxPossibleLaps == MulDiv(inputs.padThickness, 1000, MIN_WEAR_FOR_LAPS)
        laps == MathMax(0, MathMin(maxPossibleLaps, prediction.predictedLapsRemaining))
        predictedLapsRemaining ==
            IF Greater(wearRate, HIGH_WEAR) /\ Greater(laps, CROSS_CHECK_LAPS)
            THEN MathMin(laps, MulDiv(inputs.padThickness, 1000, wearRate))
            ELSE laps
    IN  [temperature |-> temperature, wearRate |-> wearRate,
         predictedLapsRemaining |-> predictedLapsRemaining]

\* The blend with the calibration factor applied after the clamps.
CorrectedPredictionCalibratedLast(self, physics, lstm, weights, inputs) ==
    LET uncalibrated == [self EXCEPT !.calibrationFactor = 10000]
        c == ApplyDomainCorrections(CombinePredictions(uncalibrated, physics, lstm, weights),
                                    inputs)
    IN  [c EXCEPT !.temperature = Times(@, self.calibrationFactor)]

\* combinePredictions, then applyDomainCorrections on what it returned.
CorrectedPrediction(self, physics, lstm, weights, inputs) ==
    ApplyDomainCorrections(CombinePredictions(self, physics, lstm, weights), inputs)

MIN_CONFIDENCE == 5000                \* Math.max(0.5, ...)
MAX_CONFIDENCE == 9500                \* Math.min(0.95, ...)

\* the confidence without its floor
CalculateOverallConfidenceUnfloored(lstmConfidence, anomalyScore) ==
    MathMin(MAX_CONFIDENCE, Minus(lstmConfidence, MathMax(0, Scale(anomalyScore, 3, 10))))

\* HybridDigitalTwin.calculateOverallConfidence
CalculateOverallConfidence(lstmConfidence, anomalyScore) ==
    LET anomalyPenalty == MathMax(0, Scale(anomalyScore, 3, 10))
    IN  MathMax(MIN_CONFIDENCE, MathMin(MAX_CONFIDENCE, Minus(lstmConfidence, anomalyPenalty)))

INVALID_LSTM_CONFIDENCE == 3000       \* confidence: 0.3
FAILED_LSTM_CONFIDENCE == 2000        \* confidence: 0.2

NoLearned ==
    [temperature |-> 0, wearRate |-> 0, predictedLapsRemaining |-> 0, confidence |-> 0]

\* The four fields predict reads of what this.lstmModel.predict returned.
Returned(r) ==
    [temperature |-> r.temperature, wearRate |-> r.wearRate,
     predictedLapsRemaining |-> r.predictedLapsRemaining, confidence |-> r.confidence]

\* The physics values standing in for the LSTM result, at confidence c.
Substitute(physicsResult, c) ==
    [temperature |-> physicsResult.temperature, wearRate |-> physicsResult.wearRate,
     predictedLapsRemaining |-> physicsResult.predictedLapsRemaining, confidence |-> c]

\* The validation of the LSTM result r: the physics values at confidence 0.3
\* replace it when a field of it is NaN.
Validated(physicsResult, r) ==
    IF IsNaN(r.temperature) \/ IsNaN(r.wearRate) \/ IsNaN(r.predictedLapsRemaining)
    THEN [lstmThrew |-> FALSE, lstmReturned |-> Returned(r),
          lstmResult |-> Substitute(physicsResult, INVALID_LSTM_CONFIDENCE)]
    ELSE [lstmThrew |-> FALSE, lstmReturned |-> Returned(r), lstmResult |-> Returned(r)]

\* The LSTM result r taken as it is.
Unvalidated(physicsResult, r) ==
    [lstmThrew |-> FALSE, lstmReturned |-> Returned(r), lstmResult |-> Returned(r)]

\* The inner try without the validation of what the LSTM returned.
LSTMOrFallbackUnvalidated(physicsResult, sequence, net) ==
    IF net.throws
    THEN [lstmThrew |-> TRUE, lstmReturned |-> NoLearned,
          lstmResult |-> Substitute(physicsResult, FAILED_LSTM_CONFIDENCE)]
    ELSE Unvalidated(physicsResult, LSTMPredict(sequence, net))

\* The inner try/catch of HybridDigitalTwin.predict: lstmResult is what the
\* LSTM returned, or the physics values at confidence 0.3 when a field of it
\* is NaN, or the physics values at confidence 0.2 when the call raised.
\* net.throws stands for an exception escaping this.lstmModel.predict.
LSTMOrFallback(physicsResult, sequence, net) ==
    IF net.throws
    THEN [lstmThrew |-> TRUE, lstmReturned |-> NoLearned,
          lstmResult |-> Substitute(physicsResult, FAILED_LSTM_CONFIDENCE)]
    ELSE Validated(physicsResult, LSTMPredict(sequence, net))

FALLBACK_CONFIDENCE == 4000           \* confidence: 0.4
FALLBACK_PHYSICS_WEIGHT == 10000      \* physicsWeight: 1.0
FALLBACK_ANOMALY == 8000              \* anomalyScore: 0.8

NoPrediction ==
    [temperature |-> 0, wearRate |-> 0, predictedLapsRemaining |-> 0,
     heatGeneration |-> 0, coolingRate |-> 0, thermalStress |-> 0, confidence |-> 0,
     physicsWeight |-> 0, mlWeight |-> 0, anomalyScore |-> 0]

\* What predict hands its caller when an exception leaves it.
Thrown ==
    [threw |-> TRUE, path |-> "none", prediction |-> NoPrediction,
     physicsResult |-> NoOutput, lstmThrew |-> FALSE, lstmReturned |-> NoLearned,
     lstmResult |-> NoLearned]

\* Step 5 of the try block: combine, correct and build the result.
PredictCombined(self, inputs, physicsResult, l, anomalyScore, adaptedWeights) ==
    LET correctedPrediction ==
            CorrectedPrediction(self, physicsResult, l.lstmResult, adaptedWeights,
                                inputs.currentState)
    IN  [threw |-> FALSE, path |-> "fused",
         prediction |->
           [temperature |-> correctedPrediction.temperature,
            wearRate |-> correctedPrediction.wearRate,
            predictedLapsRemaining |-> correctedPrediction.predictedLapsRemaining,
            heatGeneration |-> physicsResult.heatGeneration,
            coolingRate |-> physicsResult.coolingRate,
            thermalStress |-> physicsResult.thermalStress,
            confidence |-> CalculateOverallConfidence(l.lstmResult.confidence, anomalyScore),
            physicsWeight |-> adaptedWeights.physics,
            mlWeight |-> adaptedWeights.lstm,
            anomalyScore |-> anomalyScore],
         physicsResult |-> physicsResult, lstmThrew |-> l.lstmThrew,
         lstmReturned |-> l.lstmReturned, lstmResult |-> l.lstmResult]

\* Step 4: the weights adapted to the anomaly score and the LSTM confidence.
PredictScored(self, inputs, physicsResult, l, anomalyScore) ==
    PredictCombined(self, inputs, physicsResult, l, anomalyScore,
                    AdaptWeights(self, anomalyScore, l.lstmResult.confidence))

\* Step 3: the anomaly score of the two predictions.
PredictLearned(self, inputs, physicsResult, l) ==
    PredictScored(self, inputs, physicsResult, l,
        CalculateAnomalyScore(
            MathAbs(Minus(physicsResult.temperature, l.lstmResult.temperature)),
            MathAbs(Minus(physicsResult.wearRate, l.lstmResult.wearRate))))

\* Step 2: the LSTM prediction, or its fallback.
PredictPhysical(self, inputs, net, physicsResult) ==
    PredictLearned(self, inputs, physicsResult,
                   LSTMOrFallback(physicsResult, inputs.historicalSequence, net))

\* The body of the try block of HybridDigitalTwin.predict, from its step 1,
\* the physics prediction; threw: an exception left the block.
PredictTry(self, inputs, net) ==
    IF PhysicsThrows(inputs.currentState) THEN Thrown
    ELSE PredictPhysical(self, inputs, net,
             PhysicsPredict(self.physicsModel, inputs.currentState,
                 PreviousOrDefault(inputs.hasPrevious, inputs.previousTemperature)))

\* The object the catch block returns around the physics values.
Degraded(physicsResult) ==
    [threw |-> FALSE, path |-> "degraded",
     prediction |->
       [temperature |-> physicsResult.temperature,
        wearRate |-> physicsResult.wearRate,
        predictedLapsRemaining |-> physicsResult.predictedLapsRemaining,
        heatGeneration |-> physicsResult.heatGeneration,
        coolingRate |-> physicsResult.coolingRate,
        thermalStress |-> physicsResult.thermalStress,
        confidence |-> FALLBACK_CONFIDENCE,
        physicsWeight |-> FALLBACK_PHYSICS_WEIGHT,
        mlWeight |-> 10000 - FALLBACK_PHYSICS_WEIGHT,
        anomalyScore |-> FALLBACK_ANOMALY],
     physicsResult |-> physicsResult, lstmThrew |-> FALSE,
     lstmReturned |-> NoLearned, lstmResult |-> NoLearned]

\* The outer catch block of HybridDigitalTwin.predict: the physics model is
\* called once more, outside any try, and its values are returned with the
\* fixed degraded confidence, weights and anomaly score.
PredictCatch(self, inputs) ==
    IF PhysicsThrows(inputs.currentState) THEN Thrown
    ELSE Degraded(PhysicsPredict(self.physicsModel, inputs.currentState,
                      PreviousOrDefault(inputs.hasPrevious, inputs.previousTemperature)))

\* try { ... } catch: the catch block runs when an exception left the try block.
Caught(self, inputs, t) == IF t.threw THEN PredictCatch(self, inputs) ELSE t

\* HybridDigitalTwin.predict(inputs): what the caller gets, a prediction or
\* an exception.
HybridPredict(self, inputs, net) == Caught(self, inputs, PredictTry(self, inputs, net))

ERROR_THRESHOLD == 1000               \* errorThreshold = 0.1
WEIGHT_STEP == 1000                   \* adaptiveWeights.physics + 0.1

RECURSIVE TotalError(_)
TotalError(realWorldData) ==
    IF realWorldData = <<>> THEN 0
    ELSE LET point == Head(realWorldData)
         IN  MulDiv(Abs(point.predicted - point.actual), 10000, point.actual)
             + TotalError(Tail(realWorldData))

\* calibrate raising the physics weight from a mean error of 0.1 on
CalibrateFromThreshold(self, realWorldData) ==
    IF Len(realWorldData) = 0 THEN self
    ELSE LET meanError == MulDiv(TotalError(realWorldData), 1, Len(realWorldData))
             physics == MathMin(MAX_PHYSICS_WEIGHT, self.adaptiveWeights.physics + WEIGHT_STEP)
         IN  [physicsModel |-> self.physicsModel,
              adaptiveWeights |->
                 IF meanError >= ERROR_THRESHOLD
                 THEN [physics |-> physics, lstm |-> 10000 - physics]
                 ELSE self.adaptiveWeights,
              calibrationFactor |-> MulDiv(10000, 10000, 10000 + meanError)]

\* calibrate without the cap on the physics weight
CalibrateUncapped(self, realWorldData) ==
    IF Len(realWorldData) = 0 THEN self
    ELSE LET meanError == MulDiv(TotalError(realWorldData), 1, Len(realWorldData))
             physics == self.adaptiveWeights.physics + WEIGHT_STEP
         IN  [physicsModel |-> self.physicsModel,
              adaptiveWeights |->
                 IF meanError > ERROR_THRESHOLD
                 THEN [physics |-> physics, lstm |-> 10000 - physics]
                 ELSE self.adaptiveWeights,
              calibrationFactor |-> MulDiv(10000, 10000, 10000 + meanError)]

\* HybridDigitalTwin.calibrate(realWorldData): the fields after the call.
Calibrate(self, realWorldData) ==
    IF Len(realWorldData) = 0 THEN self
    ELSE LET meanError == MulDiv(TotalError(realWorldData), 1, Len(realWorldData))
             calibrationFactor == MulDiv(10000, 10000, 10000 + meanError)
             physics == MathMin(MAX_PHYSICS_WEIGHT, self.adaptiveWeights.physics + WEIGHT_STEP)
         IN  [physicsModel |-> self.physicsModel,
              adaptiveWeights |->
                 IF meanError > ERROR_THRESHOLD
                 THEN [physics |-> physics, lstm |-> 10000 - physics]
                 ELSE self.adaptiveWeights,
              calibrationFactor |-> calibrationFactor]

----------------------------------------------------------------------------
(* Inputs *)

OperatingState(ws, bp, amb, pad, area, dt) ==
    [present |-> TRUE, wheelSpeed |-> ws, brakePressure |-> bp, ambientTemp |-> amb,
     padThickness |-> pad, discMass |-> DISC_MASS_E1, padArea |-> area, timeStep |-> dt]

\* inputs.currentState left undefined by the caller
UndefinedState ==
    [present |-> FALSE, wheelSpeed |-> 0, brakePressure |-> 0, ambientTemp |-> 0,
     padThickness |-> 0, discMass |-> 0, padArea |-> 0, timeStep |-> 0]

\* Valid operating states: wheelSpeed >= 0, brakePressure >= 0,
\* padThickness > 0, padArea > 0, timeStep > 0.
ValidStates ==
    { OperatingState(1500, 120, 25000, 1000000, 150, 1),    \* braking, 10 mm pad
      OperatingState(   0,   0, 20000, 1000000, 150, 1),    \* idle, ambient below 25
      OperatingState(  10,   1, 25000, 1000000,  50, 1),    \* light load
      OperatingState(1500, 120, 25000, 1000000, 150, 2),    \* braking, 2 s step
      OperatingState(  10,   1, 25000,  150000,  50, 9000), \* light load, long step, worn pad
      \* moderate load, lap-long step, a 9 kg disc declared in the inputs
      [OperatingState(100, 2, 30000, 1250000, 120, 90) EXCEPT !.discMass = 90] }

\* the previousTemp argument: left out, or 1100 degC
PreviousArgs == {[given |-> FALSE, value |-> 0], [given |-> TRUE, value |-> 1100000]}

\* the initialTemp argument of simulateOverTime
InitialTemps == {25000, 400000}

MaxDuration == 3
Durations == 0 .. MaxDuration

\* the kinds of call made on the instance
PhysicsOps == {"predict", "simulateOverTime", "getSteadyState"}

----------------------------------------------------------------------------
(* PhysicsModel: state and operations *)

NoPhysicsCall ==
    [op |-> "none", inputs |-> UndefinedState, previousTemp |-> 0, out |-> NoOutput,
     results |-> <<>>, duration |-> 0]

NoRef ==
    [set |-> FALSE, inputs |-> UndefinedState, previousTemp |-> 0, out |-> NoOutput,
     between |-> {}]

IdleSteadyState ==
    [pc |-> "idle", inputs |-> UndefinedState, currentTemp |-> 0, previousTemp |-> 0,
     iterations |-> 0]

\* One more call, of kind op, was made since the reference call.
RefAfterCall(op) == IF ref.set THEN [ref EXCEPT !.between = @ \cup {op}] ELSE ref

\* physicsModel.predict(inputs, previousTemp) called directly; previousTemp
\* defaults to 25 when the caller passes none.
PhysPredict(inputs, hasPrev, prev) ==
    /\ ss.pc # "loop"
    /\ ss' = IdleSteadyState
    /\ \E previousTemp \in {PreviousOrDefault(hasPrev, prev)} :
       \E c \in {PhysicsPredictCall(physicsModel, inputs, previousTemp)} :
           /\ physicsModel' = c.self
           /\ pcall' = [op |-> "predict", inputs |-> inputs, previousTemp |-> previousTemp,
                        out |-> c.ret, results |-> <<>>, duration |-> 0]
           /\ \/ ref' = RefAfterCall("predict")
              \/ /\ ~ref.set
                 /\ ref' = [set |-> TRUE, inputs |-> inputs, previousTemp |-> previousTemp,
                            out |-> c.ret, between |-> {}]
    /\ UNCHANGED <<twin, hcall, scall, ecall, fcall, seqModels, store, timers, stcall>>

\* physicsModel.simulateOverTime(inputs, duration, initialTemp)
PhysSimulate(inputs, duration, initialTemp) ==
    /\ ss.pc # "loop"
    /\ ss' = IdleSteadyState
    /\ \E c \in {SimulateOverTime(physicsModel, inputs, duration, initialTemp)} :
           /\ physicsModel' = c.self
           /\ pcall' = [op |-> "simulateOverTime", inputs |-> inputs,
                        previousTemp |-> initialTemp, out |-> NoOutput, results |-> c.ret,
                        duration |-> duration]
    /\ ref' = RefAfterCall("simulateOverTime")
    /\ UNCHANGED <<twin, hcall, scall, ecall, fcall, seqModels, store, timers, stcall>>

\* physicsModel.getSteadyState(inputs): entry
SteadyStateBegin(inputs) ==
    /\ ss.pc # "loop"
    /\ ss' = [pc |-> "loop", inputs |-> inputs, currentTemp |-> STEADY_START_TEMP,
              previousTemp |-> 0, iterations |-> 0]
    /\ pcall' = [op |-> "getSteadyState", inputs |-> inputs, previousTemp |-> 0,
                 out |-> NoOutput, results |-> <<>>, duration |-> 0]
    /\ UNCHANGED <<physicsModel, ref, twin, hcall, scall, ecall, fcall, seqModels, store, timers, stcall>>

\* one pass of the loop with the two assignments the wrong way round
SteadyStateIterateSwapped ==
    /\ ss.pc = "loop"
    /\ SteadyStateContinues(ss.currentTemp, ss.previousTemp, ss.iterations)
    /\ \E c \in {PhysicsPredictCall(physicsModel, ss.inputs, ss.currentTemp)} :
           /\ physicsModel' = c.self
           /\ ss' = [ss EXCEPT !.previousTemp = c.ret.temperature,
                               !.currentTemp = ss.currentTemp,
                               !.iterations = @ + 1]
    /\ UNCHANGED <<pcall, ref, twin, hcall, scall, ecall, fcall, seqModels, store, timers, stcall>>

\* one pass of the while loop
SteadyStateIterate ==
    /\ ss.pc = "loop"
    /\ SteadyStateContinues(ss.currentTemp, ss.previousTemp, ss.iterations)
    /\ \E c \in {PhysicsPredictCall(physicsModel, ss.inputs, ss.currentTemp)} :
           /\ physicsModel' = c.self
           /\ ss' = [ss EXCEPT !.previousTemp = ss.currentTemp,
                               !.currentTemp = c.ret.temperature,
                               !.iterations = @ + 1]
    /\ UNCHANGED <<pcall, ref, twin, hcall, scall, ecall, fcall, seqModels, store, timers, stcall>>

\* loop exit and return this.predict(inputs, currentTemp)
SteadyStateReturn ==
    /\ ss.pc = "loop"
    /\ ~SteadyStateContinues(ss.currentTemp, ss.previousTemp, ss.iterations)
    /\ \E c \in {PhysicsPredictCall(physicsModel, ss.inputs, ss.currentTemp)} :
           /\ physicsModel' = c.self
           /\ pcall' = [pcall EXCEPT !.out = c.ret, !.previousTemp = ss.currentTemp]
    /\ ss' = [ss EXCEPT !.pc = "done"]
    /\ ref' = RefAfterCall("getSteadyState")
    /\ UNCHANGED <<twin, hcall, scall, ecall, fcall, seqModels, store, timers, stcall>>

----------------------------------------------------------------------------
(* Inputs of the sequence predictors and of the digital twin *)

HistorySequence(ws, bp, amb, pad) ==
    [present |-> TRUE, hasWheelSpeed |-> TRUE, wheelSpeed |-> ws, brakePressure |-> bp,
     ambientTemp |-> amb, padThickness |-> pad, timestamp |-> [i \in 1 .. Len(ws) |-> i]]

Repeat(x, n) == [i \in 1 .. n |-> x]

\* n identical samples
SteadySequence(n) ==
    HistorySequence(Repeat(1500, n), Repeat(120, n), Repeat(25000, n), Repeat(1000000, n))

\* no sequence passed (undefined or null)
MissingSequence ==
    [present |-> FALSE, hasWheelSpeed |-> FALSE, wheelSpeed |-> <<>>, brakePressure |-> <<>>,
     ambientTemp |-> <<>>, padThickness |-> <<>>, timestamp |-> <<>>]

\* an object that holds no wheelSpeed array
NoWheelSpeedSequence == [MissingSequence EXCEPT !.present = TRUE]

EmptySequence == SteadySequence(0)

\* wheel speeds that vary over the last five samples
VaryingSequence ==
    HistorySequence(<<1000, 1500, 2000, 1500, 1000>>, Repeat(120, 5), Repeat(25000, 5),
                    Repeat(1000000, 5))

\* brakePressure one sample short of wheelSpeed
RaggedSequence ==
    HistorySequence(Repeat(1500, 3), Repeat(120, 2), Repeat(25000, 3), Repeat(1000000, 3))

MaxHistory == 11

Sequences ==
    {MissingSequence, NoWheelSpeedSequence, EmptySequence, VaryingSequence, RaggedSequence}
    \cup {SteadySequence(n) : n \in 1 .. MaxHistory}

ForwardPass(t, w, l, a) == [rawOutput |-> <<t, w, l>>, attentionScore |-> a, throws |-> FALSE]

\* What the forward pass can produce from finite rows: raw outputs below 0,
\* inside and above [0, 1], peak attention weights from 0.1 to 1. The output
\* weight and bias are unbounded normal draws (randomMatrix, randomArray); the
\* second pass stands for every draw large enough to pass all three clamps,
\* up to the weight +Infinity that Math.random() = 0 gives.
ForwardPasses ==
    { ForwardPass( 1400,  2000,     0, 10000),
      ForwardPass(12000, 30000, 10000,  1000),
      ForwardPass(-5000, -2000, -10000, 5000),
      ForwardPass( 5000,  5000,  2500,  3000) }

\* this.lstmModel.predict raising instead of returning
FailingPass == [ForwardPass(0, 0, 0, 0) EXCEPT !.throws = TRUE]

\* inputs.currentState of the twin: braking, extreme heat on a 3 mm pad, idle
\* below 25 degC, idle below 0 degC, or left undefined
TwinStates ==
    { OperatingState(1500, 120, 25000, 1000000, 150, 1),
      OperatingState(2200, 250, 35000,  300000, 150, 1),
      OperatingState(   0,   0, 20000, 1000000, 150, 1),
      \* idle at -10 degC over a step long enough to cool the disc down to it
      OperatingState(   0,   0, -10000, 1000000, 150, 9000),
      UndefinedState }

TwinInputs(currentState, historicalSequence, prev) ==
    [currentState |-> currentState, historicalSequence |-> historicalSequence,
     hasPrevious |-> prev.given, previousTemperature |-> prev.value]

LearnedCase(sequence, net) == [sequence |-> sequence, net |-> net]

\* inputs.historicalSequence with what the LSTM makes of it: each forward
\* pass on finite rows, a raised exception, no sequence, and rows with NaN.
LearnedCases ==
    {LearnedCase(VaryingSequence, net) : net \in ForwardPasses \cup {FailingPass}}
    \cup {LearnedCase(MissingSequence, ForwardPass(5000, 5000, 2500, 3000)),
          LearnedCase(RaggedSequence, ForwardPass(5000, 5000, 2500, 3000))}

\* The calls of predict: every operating state, with and without a previous
\* temperature, on every learned case.
PredictCalls ==
    {[inputs |-> TwinInputs(currentState, learned.sequence, prev), net |-> learned.net] :
        currentState \in TwinStates, prev \in PreviousArgs, learned \in LearnedCases}

Sample(p, a) == [predicted |-> p, actual |-> a]

\* calibration points: exact, 10 % off, 50 % off; actual is a measured
\* temperature, above 0
Samples == {Sample(300, 300), Sample(330, 300), Sample(450, 300)}

MaxSamples == 2

RealWorldData == UNION {[1 .. n -> Samples] : n \in 0 .. MaxSamples}

----------------------------------------------------------------------------
(* HybridDigitalTwin: state and operations *)

NoTwinInputs ==
    TwinInputs(UndefinedState, MissingSequence, [given |-> FALSE, value |-> 0])

NoTwinCall ==
    [op |-> "none", inputs |-> NoTwinInputs, realWorldData |-> <<>>, r |-> Thrown,
     before |-> NewHybridDigitalTwin]

\* hybridTwin.predict(inputs)
TwinPredict(inputs, net) ==
    /\ hcall' = [op |-> "predict", inputs |-> inputs, realWorldData |-> <<>>,
                 r |-> HybridPredict(twin, inputs, net), before |-> twin]
    /\ UNCHANGED <<twin, physicsModel, pcall, ref, ss, scall, ecall, fcall, seqModels, store, timers, stcall>>

\* hybridTwin.calibrate(realWorldData)
TwinCalibrate(realWorldData) ==
    /\ twin' = Calibrate(twin, realWorldData)
    /\ hcall' = [op |-> "calibrate", inputs |-> NoTwinInputs, realWorldData |-> realWorldData,
                 r |-> Thrown, before |-> twin]
    /\ UNCHANGED <<physicsModel, pcall, ref, ss, scall, ecall, fcall, seqModels, store, timers, stcall>>

----------------------------------------------------------------------------
(* Sequence predictors: state and operations *)

NoSequenceCall ==
    [model |-> "none", sequence |-> MissingSequence, threw |-> FALSE,
     out |-> GetDefaultPrediction, repeated |-> FALSE, first |-> GetDefaultPrediction,
     paired |-> FALSE, sequenceData |-> <<>>,
     other |-> [sequence |-> MissingSequence, out |-> GetDefaultPrediction,
                sequenceData |-> <<>>]]

\* The weights the three constructors drew, held as the forward pass they
\* compute.
NewModels ==
    [lstm |-> ForwardPass(5000, 5000, 2500, 3000),
     gru |-> ForwardPass(5000, 5000, 2500, 3000),
     tcn |-> ForwardPass(5000, 5000, 2500, 3000)]

\* weights the three constructors can draw
ModelDraws ==
    {[model \in DOMAIN NewModels |-> net] :
        net \in {ForwardPass(12000, 30000, 10000, 1000),
                 ForwardPass(-5000, -2000, -10000, 5000)}}

\* new LSTMModel(), new GRUModel() and new TCNModel(), as the constructor of
\* ModelEvaluator makes them: weights drawn afresh
Construct(drawn) ==
    /\ seqModels' = drawn
    /\ UNCHANGED <<physicsModel, pcall, ref, ss, twin, hcall, scall, ecall, fcall, store, timers, stcall>>

\* lstmModel.train(trainingData) with a non-empty list: adjustWeightsAdvanced
\* moves every gate weight and bias by a random step
LSTMTrain(net) ==
    /\ seqModels' = [seqModels EXCEPT !.lstm = net]
    /\ UNCHANGED <<physicsModel, pcall, ref, ss, twin, hcall, scall, ecall, fcall, store, timers, stcall>>

\* predict moving the weights the way a training step does
SequencePredictCallAdjusting(model, self, sequence) ==
    [ret |-> IF model = "lstm" THEN LSTMPredict(sequence, self)
             ELSE IF model = "gru" THEN GRUPredict(sequence, self)
             ELSE TCNPredict(sequence, self),
     self |-> ForwardPass(self.rawOutput[1] - 100, self.rawOutput[2] + 100,
                          self.rawOutput[3] + 100, self.attentionScore)]

\* What a call of predict leaves behind: its return value and the weights of
\* the instance after the call. None of the three assigns to a field of
\* `this`, and none draws a random number.
SequencePredictCall(model, self, sequence) ==
    [ret |-> IF model = "lstm" THEN LSTMPredict(sequence, self)
             ELSE IF model = "gru" THEN GRUPredict(sequence, self)
             ELSE TCNPredict(sequence, self),
     self |-> self]

\* lstmModel.predict(sequence)
LSTMCall(sequence, net) ==
    /\ \E c \in {SequencePredictCall("lstm", net, sequence)} :
          /\ scall' = [NoSequenceCall EXCEPT !.model = "lstm", !.sequence = sequence,
                                             !.out = c.ret]
          /\ seqModels' = [seqModels EXCEPT !.lstm = c.self]
    /\ UNCHANGED <<physicsModel, pcall, ref, ss, twin, hcall, ecall, fcall, store, timers, stcall>>

\* gruModel.predict(sequence)
GRUCall(sequence, net) ==
    /\ IF HeadModelThrows(sequence)
       THEN /\ scall' = [NoSequenceCall EXCEPT !.model = "gru", !.sequence = sequence,
                                               !.threw = TRUE]
            /\ UNCHANGED seqModels
       ELSE \E c \in {SequencePredictCall("gru", net, sequence)} :
               /\ scall' = [NoSequenceCall EXCEPT !.model = "gru", !.sequence = sequence,
                                                  !.out = c.ret]
               /\ seqModels' = [seqModels EXCEPT !.gru = c.self]
    /\ UNCHANGED <<physicsModel, pcall, ref, ss, twin, hcall, ecall, fcall, store, timers, stcall>>

\* tcnModel.predict(sequence)
TCNCall(sequence, net) ==
    /\ IF HeadModelThrows(sequence)
       THEN /\ scall' = [NoSequenceCall EXCEPT !.model = "tcn", !.sequence = sequence,
                                               !.threw = TRUE]
            /\ UNCHANGED seqModels
       ELSE \E c \in {SequencePredictCall("tcn", net, sequence)} :
               /\ scall' = [NoSequenceCall EXCEPT !.model = "tcn", !.sequence = sequence,
                                                  !.out = c.ret]
               /\ seqModels' = [seqModels EXCEPT !.tcn = c.self]
    /\ UNCHANGED <<physicsModel, pcall, ref, ss, twin, hcall, ecall, fcall, store, timers, stcall>>

\* the sequences a caller passes twice, and those it passes in between
SequencesRepeated == {VaryingSequence, SteadySequence(2), SteadySequence(MaxHistory)}
SequencesBetween == {EmptySequence, VaryingSequence}

\* model.predict(sequence); model.predict(between); model.predict(sequence)
\* on one instance, none of the calls raising
PredictTwice(model, sequence, between) ==
    /\ model = "lstm" \/ ~HeadModelThrows(sequence)
    /\ \E c1 \in {SequencePredictCall(model, seqModels[model], sequence)} :
       \E c2 \in {SequencePredictCall(model, c1.self, between)} :
       \E c3 \in {SequencePredictCall(model, c2.self, sequence)} :
          /\ scall' = [NoSequenceCall EXCEPT !.model = model, !.sequence = sequence,
                                             !.out = c3.ret, !.repeated = TRUE,
                                             !.first = c1.ret]
          /\ seqModels' = [seqModels EXCEPT ![model] = c3.self]
    /\ UNCHANGED <<physicsModel, pcall, ref, ss, twin, hcall, ecall, fcall, store, timers, stcall>>

\* the samples with timestamps 1 to 10 behind `older` earlier ones; the
\* speeds of the last 5 vary
History(older, olderSpeed, lastSpeed) ==
    [HistorySequence(Repeat(olderSpeed, older) \o <<1500, 1500, 1500, 1500, 1500, 1400,
                                                    1500, 1600, 1500, lastSpeed>>,
                     Repeat(120, older + 10), Repeat(25000, older + 10),
                     Repeat(1000000, older + 10))
        EXCEPT !.timestamp = [i \in 1 .. older + 10 |-> i - older]]

\* pairs of histories of 10 to 12 samples: the same last 10 behind no, one
\* or two earlier samples, slower, faster or not a number, and a pair that
\* differs in the last sample
HistoryPairs ==
    { <<History(2, 3000, 1400), History(0, 0, 1400)>>,
      <<History(1, NaN, 1400), History(2, 3000, 1400)>>,
      <<History(0, 0, 1400), History(1, 500, 1400)>>,
      <<History(1, 500, 1400), History(1, 500, 1700)>> }

\* lstmModel.predict(a); lstmModel.predict(b) on one instance; sequenceData
\* is the window each call handed to the forward pass
LSTMPairCall(a, b) ==
    /\ \E c1 \in {SequencePredictCall("lstm", seqModels.lstm, a)} :
       \E c2 \in {SequencePredictCall("lstm", c1.self, b)} :
          /\ scall' = [NoSequenceCall EXCEPT
                          !.model = "lstm", !.sequence = b, !.out = c2.ret,
                          !.paired = TRUE, !.sequenceData = LSTMWindow(b),
                          !.other = [sequence |-> a, out |-> c1.ret,
                                     sequenceData |-> LSTMWindow(a)]]
          /\ seqModels' = [seqModels EXCEPT !.lstm = c2.self]
    /\ UNCHANGED <<physicsModel, pcall, ref, ss, twin, hcall, ecall, fcall, store, timers, stcall>>

----------------------------------------------------------------------------
(* ModelEvaluator: the test scenarios *)

NoPrevious == [given |-> FALSE, value |-> 0]

TestScenario(currentState, historicalSequence, temperature, wearRate, laps) ==
    [inputs |-> TwinInputs(currentState, historicalSequence, NoPrevious),
     groundTruth |-> [temperature |-> temperature, wearRate |-> wearRate,
                      predictedLapsRemaining |-> laps]]

\* ModelEvaluator.generateTestScenarios: normal_1, extreme_heat_1,
\* high_wear_1, sensor_noise_1, rapid_change_1
TestScenarios ==
    << TestScenario(OperatingState(1500, 120, 25000, 1000000, 150, 1),
         HistorySequence(
           <<1500, 1505, 1510, 1508, 1512, 1509, 1511, 1507, 1513, 1500>>,
           <<120, 122, 118, 125, 119, 123, 117, 124, 121, 120>>,
           <<25000, 25000, 26000, 25000, 24000, 25000, 25000, 24000, 25000, 25000>>,
           <<1010000, 1008000, 1005000, 1003000, 1001000, 1000000, 998000, 996000,
             995000, 1000000>>),
         520000, 8000, 42000),
       TestScenario(OperatingState(2200, 250, 35000, 800000, 150, 1),
         HistorySequence(
           <<2000, 2100, 2150, 2180, 2200, 2220, 2200, 2190, 2210, 2200>>,
           <<200, 220, 235, 245, 250, 255, 248, 250, 252, 250>>,
           <<35000, 35000, 36000, 35000, 35000, 36000, 35000, 35000, 35000, 35000>>,
           <<820000, 815000, 810000, 808000, 805000, 803000, 801000, 800000, 798000,
             800000>>),
         850000, 25000, 18000),
       TestScenario(OperatingState(1800, 200, 28000, 450000, 150, 1),
         HistorySequence(
           <<1750, 1780, 1800, 1820, 1790, 1800, 1810, 1780, 1800, 1800>>,
           <<190, 195, 200, 205, 198, 200, 203, 197, 200, 200>>,
           <<28000, 28000, 29000, 28000, 28000, 28000, 29000, 28000, 28000, 28000>>,
           <<520000, 500000, 480000, 470000, 460000, 455000, 452000, 450000, 448000,
             450000>>),
         720000, 35000, 8000),
       TestScenario(OperatingState(1520, 118, 24000, 980000, 150, 1),
         HistorySequence(
           <<1505, 1498, 1515, 1522, 1485, 1510, 1508, 1525, 1495, 1520>>,
           <<122, 115, 125, 112, 128, 118, 120, 114, 125, 118>>,
           <<24000, 25000, 23000, 26000, 24000, 25000, 23000, 24000, 25000, 24000>>,
           <<985000, 983000, 982000, 981000, 980000, 979000, 978000, 979000, 980000,
             980000>>),
         530000, 9000, 40000),
       TestScenario(OperatingState(2000, 220, 30000, 750000, 150, 1),
         HistorySequence(
           <<1200, 1250, 1300, 1400, 1600, 1700, 1850, 1900, 1950, 2000>>,
           <<80, 85, 90, 120, 150, 180, 200, 210, 215, 220>>,
           <<30000, 30000, 30000, 30000, 31000, 31000, 30000, 30000, 30000, 30000>>,
           <<780000, 775000, 770000, 765000, 760000, 758000, 755000, 753000, 751000,
             750000>>),
         650000, 18000, 25000) >>

\* yTrue: the ground-truth temperature of every scenario
GroundTruthTemperatures(testScenarios) ==
    [i \in 1 .. Len(testScenarios) |-> testScenarios[i].groundTruth.temperature]

----------------------------------------------------------------------------
(* ModelEvaluator: metrics *)

\* Math.abs(predicted - actual) / actual, in 1e-4
RelativeError(predicted, actual) == Scale(MathAbs(Minus(predicted, actual)), 10000, actual)

RECURSIVE SumOfSquares(_)
SumOfSquares(values) ==
    IF values = <<>> THEN 0 ELSE Head(values) * Head(values) + SumOfSquares(Tail(values))

\* the largest r in lo .. hi with r * r <= x
RECURSIVE SqrtBetween(_, _, _)
SqrtBetween(x, lo, hi) ==
    IF lo >= hi THEN lo
    ELSE IF ((lo + hi + 1) \div 2) * ((lo + hi + 1) \div 2) <= x
    THEN SqrtBetween(x, (lo + hi + 1) \div 2, hi)
    ELSE SqrtBetween(x, lo, (lo + hi + 1) \div 2 - 1)

\* Math.sqrt of x >= 0, to the unit below
MathSqrt(x) == SqrtBetween(x, 0, 46340)

\* a temperature in deci-degC, the unit the sums of squares of computeR2 fit in
DeciDegrees(temperature) == MulDiv(temperature, 1, 100)

\* the array minus the number d, element by element
Deviations(values, d) == [i \in 1 .. Len(values) |-> DeciDegrees(values[i]) - d]

\* the differences yTrue[i] - yPred[i]
Residuals(yTrue, yPred) ==
    [i \in 1 .. Len(yTrue) |-> DeciDegrees(yTrue[i]) - DeciDegrees(yPred[i])]

\* 1 - ssRes / ssTot, or 0 when ssTot is 0
R2Of(ssTot, ssRes) == IF ssTot = 0 THEN 0 ELSE 10000 - MulDiv(ssRes, 10000, ssTot)

\* ModelEvaluator.computeR2, in 1e-4
ComputeR2(yTrue, yPred) ==
    IF Len(yTrue) = 0 THEN 0
    ELSE R2Of(SumOfSquares(Deviations(yTrue, DeciDegrees(SumSeq(yTrue) \div Len(yTrue)))),
              SumOfSquares(Residuals(yTrue, yPred)))

\* the per-scenario relative errors of the predicted temperatures
ScenarioErrors(yTrue, yPred) ==
    [i \in 1 .. Len(yTrue) |-> RelativeError(yPred[i], yTrue[i])]

\* The metrics with the mean squared error reported in place of its root.
PerformanceOfWithoutRoot(errors, yTrue, yPred, responseTime, interpretability) ==
    [accuracy |-> MathMax(0, 10000 - SumSeq(errors) \div Len(errors)),
     responseTime |-> responseTime,
     interpretability |-> interpretability,
     meanAbsoluteError |-> SumSeq(errors) \div Len(errors),
     rootMeanSquareError |-> (SumOfSquares(errors) \div Len(errors)) \div 10000,
     r2 |-> ComputeR2(yTrue, yPred)]

\* The end of each evaluate...Model method: the metrics from the errors.
\* Means and the square root are taken to the unit below.
PerformanceOf(errors, yTrue, yPred, responseTime, interpretability) ==
    [accuracy |-> MathMax(0, 10000 - SumSeq(errors) \div Len(errors)),
     responseTime |-> responseTime,
     interpretability |-> interpretability,
     meanAbsoluteError |-> SumSeq(errors) \div Len(errors),
     rootMeanSquareError |-> MathSqrt(SumOfSquares(errors) \div Len(errors)),
     r2 |-> ComputeR2(yTrue, yPred)]

\* The loop and the metrics every evaluate...Model method shares: yPred holds
\* the temperature the model predicted for each scenario.
Evaluate(testScenarios, yPred, responseTime, interpretability) ==
    PerformanceOf(ScenarioErrors(GroundTruthTemperatures(testScenarios), yPred),
                  GroundTruthTemperatures(testScenarios), yPred,
                  responseTime, interpretability)

HYBRID_INTERPRETABILITY == 8500       \* 85
LSTM_INTERPRETABILITY == 3500         \* 35
PHYSICS_INTERPRETABILITY == 9500      \* 95
GRU_INTERPRETABILITY == 4500          \* 45
TCN_INTERPRETABILITY == 4000          \* 40

\* ModelEvaluator.evaluateHybridModel; nets[i] is the forward pass of the
\* twin's LSTM on scenario i, responseTime the mean of the measured times.
EvaluateHybridModel(hybridModel, testScenarios, nets, responseTime) ==
    Evaluate(testScenarios,
        [i \in 1 .. Len(testScenarios) |->
            HybridPredict(hybridModel, testScenarios[i].inputs, nets[i]).prediction.temperature],
        responseTime, HYBRID_INTERPRETABILITY)

\* ModelEvaluator.evaluateLSTMModel
EvaluateLSTMModel(testScenarios, nets, responseTime) ==
    Evaluate(testScenarios,
        [i \in 1 .. Len(testScenarios) |->
            LSTMPredict(testScenarios[i].inputs.historicalSequence, nets[i]).temperature],
        responseTime, LSTM_INTERPRETABILITY)

\* ModelEvaluator.evaluatePhysicsOnly
EvaluatePhysicsOnly(self, testScenarios, responseTime) ==
    Evaluate(testScenarios,
        [i \in 1 .. Len(testScenarios) |->
            PhysicsPredict(self, testScenarios[i].inputs.currentState,
                           DEFAULT_PREVIOUS_TEMP).temperature],
        responseTime, PHYSICS_INTERPRETABILITY)

\* ModelEvaluator.evaluateGRUModel
EvaluateGRUModel(testScenarios, nets, responseTime) ==
    Evaluate(testScenarios,
        [i \in 1 .. Len(testScenarios) |->
            GRUPredict(testScenarios[i].inputs.historicalSequence, nets[i]).temperature],
        responseTime, GRU_INTERPRETABILITY)

\* ModelEvaluator.evaluateTCNModel
EvaluateTCNModel(testScenarios, nets, responseTime) ==
    Evaluate(testScenarios,
        [i \in 1 .. Len(testScenarios) |->
            TCNPredict(testScenarios[i].inputs.historicalSequence, nets[i]).temperature],
        responseTime, TCN_INTERPRETABILITY)

----------------------------------------------------------------------------
(* ModelEvaluator: compareModels and evaluateModels *)

\* Object.keys(models), in insertion order
ModelKeys == <<"hybrid", "lstm", "physics", "gru", "tcn">>

\* accuracy * 0.4 + (100 - Math.min(100, responseTime)) * 0.2
\* + interpretability * 0.4, in 1e-3
Score(m) == 4 * m.accuracy + 2 * (10000 - MathMin(10000, m.responseTime))
            + 4 * m.interpretability

\* the reduce with a strict comparison, which hands a tie to the later key
RECURSIVE ReduceWinnerStrict(_, _, _)
ReduceWinnerStrict(scores, a, keys) ==
    IF keys = <<>> THEN a
    ELSE ReduceWinnerStrict(scores, IF scores[a] > scores[Head(keys)] THEN a ELSE Head(keys),
                            Tail(keys))

\* keys.reduce((a, b) => (scores[a] >= scores[b] ? a : b)) from accumulator a
RECURSIVE ReduceWinner(_, _, _)
ReduceWinner(scores, a, keys) ==
    IF keys = <<>> THEN a
    ELSE ReduceWinner(scores, IF scores[a] >= scores[Head(keys)] THEN a ELSE Head(keys),
                      Tail(keys))

\* winnerKey narrowed to the five model names, else 'tie'
WinnerOf(winnerKey) ==
    IF winnerKey \in {"hybrid", "lstm", "physics", "gru", "tcn"} THEN winnerKey ELSE "tie"

\* ModelEvaluator.compareModels: the scores and the winner
CompareModels(models) ==
    [scores |-> [k \in DOMAIN models |-> Score(models[k])],
     winner |-> WinnerOf(ReduceWinner([k \in DOMAIN models |-> Score(models[k])],
                                      Head(ModelKeys), Tail(ModelKeys)))]

NoPerformance ==
    [accuracy |-> 0, responseTime |-> 0, interpretability |-> 0, meanAbsoluteError |-> 0,
     rootMeanSquareError |-> 0, r2 |-> 0]

NoModels ==
    [hybrid |-> NoPerformance, lstm |-> NoPerformance, physics |-> NoPerformance,
     gru |-> NoPerformance, tcn |-> NoPerformance]

NoComparison == [scores |-> [k \in DOMAIN NoModels |-> 0], winner |-> "none"]

\* pc: the step evaluateModels runs next ("idle": not called, "done": returned)
NoEvaluation == [pc |-> "idle", models |-> NoModels, comparison |-> NoComparison]

\* What the random weights of one model instance make of the five scenarios:
\* the same forward pass on each, or a different one on each.
WeightDraws ==
    { [i \in 1 .. 5 |-> ForwardPass(1400, 2000, 0, 10000)],
      [i \in 1 .. 5 |-> ForwardPass(12000, 30000, 10000, 1000)],
      << ForwardPass(4213, 1600, 2100, 3000), ForwardPass(7021, 5000, 900, 3000),
         ForwardPass(5915, 7000, 400, 5000), ForwardPass(4298, 1800, 2000, 3000),
         ForwardPass(5319, 3600, 1250, 1000) >> }

\* mean measured response times: 0.5 ms and 150 ms
ResponseTimes == {50, 15000}

\* evaluateModels: entry and await this.evaluateHybridModel(). One call is
\* followed to its end; a later call starts from the same model instances.
EvaluateModelsHybrid(nets, responseTime) ==
    /\ ecall.pc = "idle"
    /\ ecall' = [NoEvaluation EXCEPT
                   !.pc = "lstm",
                   !.models.hybrid = EvaluateHybridModel(NewHybridDigitalTwin, TestScenarios,
                                                         nets, responseTime)]
    /\ UNCHANGED <<physicsModel, pcall, ref, ss, twin, hcall, scall, fcall, seqModels, store, timers, stcall>>

\* await this.evaluateLSTMModel()
EvaluateModelsLSTM(nets, responseTime) ==
    /\ ecall.pc = "lstm"
    /\ ecall' = [ecall EXCEPT
                   !.pc = "physics",
                   !.models.lstm = EvaluateLSTMModel(TestScenarios, nets, responseTime)]
    /\ UNCHANGED <<physicsModel, pcall, ref, ss, twin, hcall, scall, fcall, seqModels, store, timers, stcall>>

\* await this.evaluatePhysicsOnly()
EvaluateModelsPhysics(responseTime) ==
    /\ ecall.pc = "physics"
    /\ ecall' = [ecall EXCEPT
                   !.pc = "gru",
                   !.models.physics = EvaluatePhysicsOnly(NewPhysicsModel, TestScenarios,
                                                         responseTime)]
    /\ UNCHANGED <<physicsModel, pcall, ref, ss, twin, hcall, scall, fcall, seqModels, store, timers, stcall>>

\* await this.evaluateGRUModel()
EvaluateModelsGRU(nets, responseTime) ==
    /\ ecall.pc = "gru"
    /\ ecall' = [ecall EXCEPT
                   !.pc = "tcn",
                   !.models.gru = EvaluateGRUModel(TestScenarios, nets, responseTime)]
    /\ UNCHANGED <<physicsModel, pcall, ref, ss, twin, hcall, scall, fcall, seqModels, store, timers, stcall>>

\* await this.evaluateTCNModel()
EvaluateModelsTCN(nets, responseTime) ==
    /\ ecall.pc = "tcn"
    /\ ecall' = [ecall EXCEPT
                   !.pc = "compare",
                   !.models.tcn = EvaluateTCNModel(TestScenarios, nets, responseTime)]
    /\ UNCHANGED <<physicsModel, pcall, ref, ss, twin, hcall, scall, fcall, seqModels, store, timers, stcall>>

\* this.compareModels(...) and return
EvaluateModelsCompare ==
    /\ ecall.pc = "compare"
    /\ ecall' = [ecall EXCEPT !.pc = "done", !.comparison = CompareModels(ecall.models)]
    /\ UNCHANGED <<physicsModel, pcall, ref, ss, twin, hcall, scall, fcall, seqModels, store, timers, stcall>>

----------------------------------------------------------------------------
(* Methods taken on their own: state and operations *)

NoMethodCall ==
    [op |-> "none", args |-> <<>>, out |-> <<>>,
     earlier |-> [op |-> "none", args |-> <<>>, out |-> <<>>]]

\* the call before the one being made, when it was an anomaly score
Earlier ==
    IF fcall.op = "calculateAnomalyScore"
    THEN [op |-> fcall.op, args |-> fcall.args, out |-> fcall.out]
    ELSE NoMethodCall.earlier

\* temperatures and wear rates the two estimates of one predict can hold
EstimateTemperatures == {25000, 75000, 325000, 1200000}
EstimateWearRates == {100, 2000, 50000}

\* HybridDigitalTwin.predict, the anomaly score of a physics and a learned
\* estimate: tempDiff, wearDiff, calculateAnomalyScore(tempDiff, wearDiff)
AnomalyCall(physicsTemperature, lstmTemperature, physicsWearRate, lstmWearRate) ==
    /\ \E tempDiff \in {MathAbs(Minus(physicsTemperature, lstmTemperature))} :
       \E wearDiff \in {MathAbs(Minus(physicsWearRate, lstmWearRate))} :
          fcall' = [op |-> "calculateAnomalyScore",
                    args |-> <<tempDiff, wearDiff>>,
                    out |-> <<CalculateAnomalyScore(tempDiff, wearDiff)>>,
                    earlier |-> Earlier]
    /\ UNCHANGED <<physicsModel, pcall, ref, ss, twin, hcall, scall, ecall, seqModels, store, timers, stcall>>

\* accuracies the evaluate... methods can report: 40, 90 and 95 %
Accuracies == {4000, 9000, 9500}

\* the interpretability each evaluate... method reports
Interpretabilities ==
    [hybrid |-> HYBRID_INTERPRETABILITY, lstm |-> LSTM_INTERPRETABILITY,
     physics |-> PHYSICS_INTERPRETABILITY, gru |-> GRU_INTERPRETABILITY,
     tcn |-> TCN_INTERPRETABILITY]

\* the five performances handed to compareModels
PerformanceDraws ==
    { [k \in DOMAIN NoModels |->
          [NoPerformance EXCEPT !.accuracy = accuracy[k], !.responseTime = responseTime[k],
                                !.interpretability = Interpretabilities[k]]] :
        accuracy \in [DOMAIN NoModels -> Accuracies],
        responseTime \in { [k \in DOMAIN NoModels |-> 50],
                           [k \in DOMAIN NoModels |-> IF k = "physics" THEN 50 ELSE 15000] } }

\* this.compareModels(hybrid, lstm, physics, gru, tcn)
CompareCall(models) ==
    /\ fcall' = [op |-> "compareModels", args |-> <<models>>,
                 out |-> <<CompareModels(models)>>, earlier |-> NoMethodCall.earlier]
    /\ UNCHANGED <<physicsModel, pcall, ref, ss, twin, hcall, scall, ecall, seqModels, store, timers, stcall>>

\* LSTMModel.dotProduct(weights, inputs, bias): result[i][j] is bias[i] plus
\* the sum over the rows k of inputs of weights[i][k] * inputs[k][j]. Weights
\* and inputs in 1e-2, bias and result in 1e-4.
DotProduct(w, inputs, bias) ==
    [i \in 1 .. Len(w) |->
        [j \in 1 .. Len(inputs[1]) |->
            bias[i] + SumSeq([k \in 1 .. Len(inputs) |-> w[i][k] * inputs[k][j]])]]

\* output layers randomMatrix and randomArray can draw: one weight row and
\* one bias per output
OutputLayers ==
    { [weights |-> << <<10, 20, -10, 5>>, <<-20, 10, 30, 0>>, <<5, -5, 15, 10>> >>,
       bias |-> <<1000, -500, 200>>],
      [weights |-> << <<-30, 0, 10, 20>>, <<10, 10, 10, 10>>, <<0, 40, -20, 5>> >>,
       bias |-> <<0, 300, -100>>] }

\* attention contexts: weighted means of hidden states, each entry in (-1, 1)
ContextVectors ==
    { <<50, -20, 30, 10>>, <<-40, 60, 0, 90>>, <<10, 10, 10, 10>>, <<0, 0, 0, 0>>,
      <<99, -99, 50, -50>>, <<25, 75, -25, -75>> }

\* LSTMModel.predict, the final prediction layer: rawOutput = dotProduct(
\* last weights, [contextVector], last biases), of which rawOutput[0][0],
\* rawOutput[0][1] and rawOutput[0][2] are denormalised
OutputLayerCall(layer, contextVector) ==
    /\ \E rawOutput \in {DotProduct(layer.weights, <<contextVector>>, layer.bias)} :
          fcall' = [op |-> "dotProduct",
                    args |-> <<layer.weights, contextVector, layer.bias>>,
                    out |-> <<rawOutput[1][1], rawOutput[1][2], rawOutput[1][3]>>,
                    earlier |-> NoMethodCall.earlier]
    /\ UNCHANGED <<physicsModel, pcall, ref, ss, twin, hcall, scall, ecall, seqModels, store, timers, stcall>>

ECE_TOLERANCE == 1000                 \* tol = 0.1

\* the bin edges 0, 0.2, 0.4, 0.6, 0.8, 1.0
EceBins == <<0, 2000, 4000, 6000, 8000, 10000>>

\* o.c >= lo && o.c < hi
InBin(c, lo, hi) == c >= lo /\ c < hi

\* Math.abs(yPred[j] - yTrue[j]) / Math.max(1e-6, yTrue[j]) <= tol; the
\* actual temperatures are above the floor of the division
WithinTolerance(yTrue, yPred, j) ==
    MulDiv(MathAbs(yPred[j] - yTrue[j]), 10000, MathMax(1, yTrue[j])) <= ECE_TOLERANCE

\* one element of `out`: confidenceAvg and acc are 0 for an empty bin
BinOf(count, confidenceSum, correct) ==
    [count |-> count,
     confidenceAvg |-> IF count > 0 THEN MulDiv(confidenceSum, 1, count) ELSE 0,
     accuracy |-> IF count > 0 THEN MulDiv(correct, 10000, count) ELSE 0]

\* the body of the loop over the bins, for the bin from lo to hi
CalibrationBin(yTrue, yPred, conf, lo, hi) ==
    BinOf(SumSeq([j \in 1 .. Len(conf) |-> IF InBin(conf[j], lo, hi) THEN 1 ELSE 0]),
          SumSeq([j \in 1 .. Len(conf) |-> IF InBin(conf[j], lo, hi) THEN conf[j] ELSE 0]),
          SumSeq([j \in 1 .. Len(conf) |->
                     IF InBin(conf[j], lo, hi) /\ WithinTolerance(yTrue, yPred, j)
                     THEN 1 ELSE 0]))

\* ece: the sum of (count / Math.max(1, conf.length)) * |acc - confidenceAvg|
EceOf(bins, n) ==
    SumSeq([i \in 1 .. Len(bins) |->
               MulDiv(bins[i].count * MathAbs(bins[i].accuracy - bins[i].confidenceAvg),
                      1, MathMax(1, n))])

\* ModelEvaluator.computeCalibrationECE
ComputeCalibrationECE(yTrue, yPred, conf) ==
    [ece |-> EceOf([i \in 1 .. Len(EceBins) - 1 |->
                       CalibrationBin(yTrue, yPred, conf, EceBins[i], EceBins[i + 1])],
                   Len(conf)),
     bins |-> [i \in 1 .. Len(EceBins) - 1 |->
                  CalibrationBin(yTrue, yPred, conf, EceBins[i], EceBins[i + 1])]]

\* predictions of an actual 500 degC inside and outside the tolerance, with
\* confidences at 0, on and next to a bin edge, inside bins, and at 1
Points ==
    [yTrue : {500000}, yPred : {520000, 580000},
     conf : {0, 1999, 2000, 5500, 9900, 10000}]

\* the predictions of one evaluation: one or two scenarios
PointLists == UNION {[1 .. n -> Points] : n \in 1 .. 2}

\* this.computeCalibrationECE(yTrue, yPred, confidences)
CalibrationCall(points) ==
    /\ \E yTrue \in {[j \in 1 .. Len(points) |-> points[j].yTrue]} :
       \E yPred \in {[j \in 1 .. Len(points) |-> points[j].yPred]} :
       \E conf \in {[j \in 1 .. Len(points) |-> points[j].conf]} :
          fcall' = [op |-> "computeCalibrationECE",
                    args |-> <<yTrue, yPred, conf>>,
                    out |-> <<ComputeCalibrationECE(yTrue, yPred, conf)>>,
                    earlier |-> NoMethodCall.earlier]
    /\ UNCHANGED <<physicsModel, pcall, ref, ss, twin, hcall, scall, ecall, seqModels, store, timers, stcall>>

----------------------------------------------------------------------------
(* useBrakeSystemStore: state and operations. The fields kept are the sensor
   values, the simulation state, the alerts and the histories; the derived
   metrics, the comparison and the performance histories are written by
   updatePredictions and read by no action of the store. *)

\* everything but the store and its timers
beyondStore == <<physicsModel, pcall, ref, ss, twin, hcall, scall, ecall, fcall, seqModels>>

\* the initial state of the store; hybridNet is the forward pass the weights
\* of hybridTwin compute
InitialStore ==
    [temperature |-> 450000, pressure |-> 120, padThickness |-> 1250000,
     wheelSpeed |-> 1500, ambientTemp |-> 25000, lapHistory |-> <<>>,
     isSimulating |-> FALSE, simulationProgress |-> 0, currentLapNumber |-> 1,
     alerts |-> <<>>, historicalData |-> <<>>,
     hybridNet |-> ForwardPass(5000, 5000, 2500, 3000)]

\* the weights new HybridDigitalTwin() can draw for its LSTM
StoreNets == {ForwardPass(1400, 2000, 0, 10000), ForwardPass(12000, 30000, 10000, 1000)}

\* the fields a pending callback can change, kept for comparison
Watched(state) ==
    [temperature |-> state.temperature, simulationProgress |-> state.simulationProgress,
     isSimulating |-> state.isSimulating, lapHistory |-> state.lapHistory,
     historicalData |-> state.historicalData]

\* op: the last action or callback; updated: it ended with updatePredictions
\* returning normally; added: the alerts added since the list was last
\* emptied; afterReset: resetSystem was called and no action since; stale:
\* the callback was scheduled before that reset; before: the watched fields
\* it met
NoStoreCall ==
    [op |-> "none", updated |-> FALSE, added |-> <<>>, afterReset |-> FALSE,
     stale |-> FALSE, before |-> Watched(InitialStore)]

Alert(message, type) == [message |-> message, type |-> type]

ALERTS_KEPT == 4                      \* state.alerts.slice(-4)

\* addAlert keeping the first 5 alerts of the list
AddAlertKeepingFirst(alerts, alert) ==
    SubSeq(Append(alerts, alert), 1, MathMin(ALERTS_KEPT + 1, Len(alerts) + 1))

\* addAlert: the list after the call
AddAlert(alerts, alert) == Append(SliceLast(alerts, ALERTS_KEPT), alert)

\* get().addAlert(...) for each alert of `raised`, in order
RECURSIVE AddAlerts(_, _)
AddAlerts(alerts, raised) ==
    IF raised = <<>> THEN alerts
    ELSE AddAlerts(AddAlert(alerts, Head(raised)), Tail(raised))

\* The alerts updatePredictions raises, in the order of its addAlert calls:
\* temperature, pad life, pressure, pad thickness, race stage, anomaly.
RaisedAlerts(currentTemp, currentPressure, currentPadThickness, currentLap, remainingLaps, anomalyScore) ==
    (IF currentTemp > 1100000 THEN <<Alert("CRITICAL", "critical")>>
     ELSE IF currentTemp > 1000000 THEN <<Alert("HIGH TEMP", "critical")>>
     ELSE IF currentTemp > 900000 THEN <<Alert("ELEVATED", "warning")>>
     ELSE IF currentTemp > 800000 THEN <<Alert("RISING", "info")>>
     ELSE <<>>)
    \o (IF remainingLaps < 3000 THEN <<Alert("FINAL LAPS", "critical")>>
        ELSE IF remainingLaps < 8000 THEN <<Alert("LOW PAD LIFE", "warning")>>
        ELSE IF remainingLaps < 15000 THEN <<Alert("MODERATE WEAR", "info")>>
        ELSE <<>>)
    \o (IF currentPressure > 250 THEN <<Alert("HIGH PRESSURE", "warning")>>
        ELSE IF currentPressure < 50 /\ currentLap > 5
        THEN <<Alert("LOW PRESSURE", "info")>>
        ELSE <<>>)
    \o (IF currentPadThickness < 300000 THEN <<Alert("CRITICAL PAD", "critical")>>
        ELSE IF currentPadThickness < 500000 THEN <<Alert("LOW PAD", "warning")>>
        ELSE IF currentPadThickness < 800000 THEN <<Alert("MODERATE PAD", "info")>>
        ELSE <<>>)
    \o (IF currentLap < 5 THEN <<Alert("EARLY RACE", "info")>>
        ELSE IF currentLap > 35 THEN <<Alert("FINAL STAGE", "info")>>
        ELSE <<>>)
    \o (IF Greater(anomalyScore, 5000) THEN <<Alert("ANOMALY", "warning")>>
        ELSE IF Greater(anomalyScore, 3000) THEN <<Alert("VARIANCE", "info")>>
        ELSE <<>>)

\* x || fallback
OrElse(x, fallback) == IF x = 0 \/ IsNaN(x) THEN fallback ELSE x

\* one array of hybridInputs.historicalSequence: the values of the last 10
\* data points, with the current value unshifted up to 10 entries when the
\* store holds fewer than 5
StoreHistory(values, current) ==
    IF Len(values) < 5 THEN Repeat(current, 10 - Len(values)) \o values ELSE values

\* hybridInputs of updatePredictions, for the padArea drawn
StoreInputs(state, recent, padArea) ==
    TwinInputs(
        OperatingState(MathMax(0, OrElse(state.wheelSpeed, 1500)),
                       MathMax(0, OrElse(state.pressure, 120)),
                       MathMax(-50000, OrElse(state.ambientTemp, 25000)),
                       MathMax(10000, OrElse(state.padThickness, 1250000)), padArea, 1),
        HistorySequence(
            StoreHistory([i \in 1 .. Len(recent) |->
                             MathMax(0, OrElse(recent[i].wheelSpeed, 1500))],
                         MathMax(0, OrElse(state.wheelSpeed, 1500))),
            StoreHistory([i \in 1 .. Len(recent) |->
                             MathMax(0, OrElse(recent[i].pressure, 120))],
                         MathMax(0, OrElse(state.pressure, 120))),
            StoreHistory([i \in 1 .. Len(recent) |->
                             MathMax(-50000, OrElse(state.ambientTemp, 25000))],
                         MathMax(-50000, OrElse(state.ambientTemp, 25000))),
            StoreHistory([i \in 1 .. Len(recent) |->
                             MathMax(10000, OrElse(recent[i].padThickness, 1250000))],
                         MathMax(10000, OrElse(state.padThickness, 1250000)))),
        [given |-> TRUE, value |-> MathMax(25000, OrElse(state.temperature, 450000))])

\* the prediction updatePredictions puts in the place of a failed or invalid
\* hybrid prediction
StoreFallback ==
    [temperature |-> 450000, wearRate |-> 10000, predictedLapsRemaining |-> 45000,
     heatGeneration |-> 10000, coolingRate |-> 5000, thermalStress |-> 5000,
     confidence |-> 3000, physicsWeight |-> 10000, mlWeight |-> 0, anomalyScore |-> 8000]

\* hybridPrediction of updatePredictions: what predict returned, r, or the
\* fallback when it raised or returned a NaN field
StorePrediction(r) ==
    IF \/ r.threw
       \/ IsNaN(r.prediction.temperature)
       \/ IsNaN(r.prediction.wearRate)
       \/ IsNaN(r.prediction.predictedLapsRemaining)
    THEN StoreFallback
    ELSE r.prediction

\* the padArea updatePredictions draws: 120 + (Math.random() - 0.5) * 60
PadAreas == {100, 150}

\* updatePredictions on the state `state`, as the last step of the action or
\* callback op: the list is emptied and the alerts raised are added. The
\* models are there, and nothing in the try block raises past the two inner
\* try blocks.
UpdatePredictions(state, op, stale) ==
    \E padArea \in PadAreas :
    \E hybridPrediction \in
          {StorePrediction(
              HybridPredict(NewHybridDigitalTwin,
                            StoreInputs(state, SliceLast(state.historicalData, 10), padArea),
                            state.hybridNet))} :
    \E raised \in {RaisedAlerts(state.temperature, state.pressure, state.padThickness,
                                state.currentLapNumber,
                                hybridPrediction.predictedLapsRemaining,
                                hybridPrediction.anomalyScore)} :
       /\ store' = [state EXCEPT !.alerts = AddAlerts(<<>>, raised)]
       /\ stcall' = [op |-> op, updated |-> TRUE, added |-> raised, afterReset |-> FALSE,
                     stale |-> stale, before |-> Watched(store)]

\* the module is loaded: create() runs the initialiser, and new
\* HybridDigitalTwin() draws the weights
CreateStore(net) ==
    /\ stcall.op = "none"
    /\ store' = [InitialStore EXCEPT !.hybridNet = net]
    /\ stcall' = [NoStoreCall EXCEPT !.op = "create"]
    /\ UNCHANGED <<timers, beyondStore>>

\* setTemperature, setPressure, setPadThickness
SetSensor(field, value) ==
    /\ UpdatePredictions([store EXCEPT ![field] = value], "setSensor", FALSE)
    /\ UNCHANGED <<timers, beyondStore>>

\* the values the sliders of the sensor panel are set to
SensorValues ==
    { <<"temperature", 950000>>, <<"temperature", 1050000>>, <<"pressure", 260>>,
      <<"padThickness", 250000>> }

\* updatePredictions called on its own
UpdatePredictionsCall ==
    /\ UpdatePredictions(store, "updatePredictions", FALSE)
    /\ UNCHANGED <<timers, beyondStore>>

\* an alert a caller of addAlert hands over
OtherAlerts == {Alert("NOTICE", "info")}

MaxAdded == 7

\* addAlert called on its own
AddAlertCall(alert) ==
    /\ Len(stcall.added) < MaxAdded
    /\ store' = [store EXCEPT !.alerts = AddAlert(@, alert)]
    /\ stcall' = [op |-> "addAlert", updated |-> FALSE,
                  added |-> Append(stcall.added, alert), afterReset |-> FALSE,
                  stale |-> FALSE, before |-> Watched(store)]
    /\ UNCHANGED <<timers, beyondStore>>

\* clearAlerts
ClearAlerts ==
    /\ store' = [store EXCEPT !.alerts = <<>>]
    /\ stcall' = [op |-> "clearAlerts", updated |-> FALSE, added |-> <<>>,
                  afterReset |-> FALSE, stale |-> FALSE, before |-> Watched(store)]
    /\ UNCHANGED <<timers, beyondStore>>

\* resetSystem: the fields go back to their initial values; the models and
\* the pending callbacks stay
ResetSystem ==
    /\ store' = [InitialStore EXCEPT !.hybridNet = store.hybridNet]
    /\ timers' = [i \in 1 .. Len(timers) |-> [timers[i] EXCEPT !.stale = TRUE]]
    /\ stcall' = [op |-> "resetSystem", updated |-> FALSE, added |-> <<>>,
                  afterReset |-> TRUE, stale |-> FALSE, before |-> Watched(store)]
    /\ UNCHANGED beyondStore

\* a callback handed to setTimeout: simulate, or simulateStep(progress) of
\* the simulateRaceLap call that read lapHistory at length laps
Timer(kind, progress, laps) ==
    [kind |-> kind, progress |-> progress, laps |-> laps, stale |-> FALSE]

\* a callback of this kind is pending
Pending(kind) == \E i \in 1 .. Len(timers) : timers[i].kind = kind

\* the list without its entry i
Without(list, i) == SubSeq(list, 1, i - 1) \o SubSeq(list, i + 1, Len(list))

MaxTimers == 2
MaxTicks == 2
MaxLaps == 1

\* currentSample with the noise simulate adds, and wearIncrement
TickSamples ==
    { [temperature |-> 120000, pressure |-> 30, wheelSpeed |-> 2500, wearIncrement |-> 1],
      [temperature |-> 380000, pressure |-> 240, wheelSpeed |-> 1200, wearIncrement |-> 6] }

HISTORY_KEPT == 49                    \* state.historicalData.slice(-49)

\* The body of simulate once isSimulating was found true: the sensor values
\* of the sample are set, the data point is appended, updatePredictions runs.
SimulateBody(state, sample, stale) ==
    \E sensed \in {[state EXCEPT
                      !.temperature = sample.temperature,
                      !.pressure = sample.pressure,
                      !.padThickness = MathMax(200000, state.padThickness - sample.wearIncrement),
                      !.wheelSpeed = sample.wheelSpeed]} :
       UpdatePredictions(
           [sensed EXCEPT !.historicalData =
               Append(SliceLast(@, HISTORY_KEPT),
                      [wheelSpeed |-> sensed.wheelSpeed, pressure |-> sensed.pressure,
                       temperature |-> sensed.temperature,
                       padThickness |-> sensed.padThickness])],
           "simulate", stale)

\* toggleSimulation: isSimulating is flipped; when it becomes true simulate
\* runs once and hands itself to setTimeout. The loop is started while no
\* step of a race lap is pending, and a race lap while no callback is.
ToggleSimulation ==
    /\ IF store.isSimulating
       THEN /\ store' = [store EXCEPT !.isSimulating = FALSE]
            /\ stcall' = [op |-> "toggleSimulation", updated |-> FALSE,
                          added |-> stcall.added, afterReset |-> FALSE, stale |-> FALSE,
                          before |-> Watched(store)]
            /\ UNCHANGED timers
       ELSE /\ Len(timers) < MaxTimers
            /\ ~Pending("simulateStep")
            /\ Len(store.historicalData) < MaxTicks
            /\ \E sample \in TickSamples :
                  SimulateBody([store EXCEPT !.isSimulating = TRUE], sample, FALSE)
            /\ timers' = Append(timers, Timer("simulate", 0, 0))
    /\ UNCHANGED beyondStore

\* the timer fires: simulate runs. It returns at once when isSimulating is
\* false; otherwise it runs its body and hands itself to setTimeout again.
Simulate(i) ==
    /\ timers[i].kind = "simulate"
    /\ IF ~store.isSimulating
       THEN /\ timers' = Without(timers, i)
            /\ stcall' = [op |-> "simulate", updated |-> FALSE, added |-> stcall.added,
                          afterReset |-> stcall.afterReset,
                          stale |-> timers[i].stale /\ stcall.afterReset,
                          before |-> Watched(store)]
            /\ UNCHANGED store
       ELSE /\ Len(store.historicalData) < MaxTicks
            /\ \E sample \in TickSamples :
                  SimulateBody(store, sample, timers[i].stale /\ stcall.afterReset)
            /\ timers' = Append(Without(timers, i), Timer("simulate", 0, 0))
    /\ UNCHANGED beyondStore

\* Math.sin((progress / 100) * Math.PI * 2) for progress 0, 2, .. 98, in 1e-4
SineOfProgress ==
    << 0, 1253, 2487, 3681, 4818, 5878, 6845, 7705, 8443, 9048, 9511, 9823, 9980, 9980,
       9823, 9511, 9048, 8443, 7705, 6845, 5878, 4818, 3681, 2487, 1253, 0, -1253, -2487,
       -3681, -4818, -5878, -6845, -7705, -8443, -9048, -9511, -9823, -9980, -9980, -9823,
       -9511, -9048, -8443, -7705, -6845, -5878, -4818, -3681, -2487, -1253 >>

\* tempIncrease = sin(..) * 50 + 50; temperature: Math.min(25 + tempIncrease * 8, 1200)
RaceTemperature(progress) ==
    MathMin(25000 + 8 * (5 * SineOfProgress[progress \div 2 + 1] + 50000), 1200000)

\* simulateStep(progress) of a lap that read lapHistory at length laps: the
\* store after the call
SimulateStepOn(state, progress, laps) ==
    IF progress >= 100
    THEN [state EXCEPT !.lapHistory = Append(@, laps + 1), !.isSimulating = FALSE,
                       !.simulationProgress = 100]
    ELSE [state EXCEPT !.simulationProgress = progress,
                       !.temperature = RaceTemperature(progress)]

\* simulateRaceLap: isSimulating and simulationProgress are set, simulateStep(0)
\* runs and hands simulateStep(2) to setTimeout
SimulateRaceLap ==
    /\ timers = <<>>
    /\ Len(store.lapHistory) < MaxLaps
    /\ store' = SimulateStepOn([store EXCEPT !.isSimulating = TRUE,
                                             !.simulationProgress = 0],
                               0, Len(store.lapHistory))
    /\ timers' = Append(timers, Timer("simulateStep", 2, Len(store.lapHistory)))
    /\ stcall' = [op |-> "simulateRaceLap", updated |-> FALSE, added |-> stcall.added,
                  afterReset |-> FALSE, stale |-> FALSE, before |-> Watched(store)]
    /\ UNCHANGED beyondStore

\* the timer fires: simulateStep(progress) runs, and below 100 hands
\* simulateStep(progress + 2) to setTimeout
RaceLapStep(i) ==
    /\ timers[i].kind = "simulateStep"
    /\ store' = SimulateStepOn(store, timers[i].progress, timers[i].laps)
    /\ timers' = IF timers[i].progress >= 100 THEN Without(timers, i)
                 ELSE Append(Without(timers, i),
                             Timer("simulateStep", timers[i].progress + 2, timers[i].laps))
    /\ stcall' = [op |-> "simulateStep", updated |-> FALSE, added |-> stcall.added,
                  afterReset |-> stcall.afterReset,
                  stale |-> timers[i].stale /\ stcall.afterReset,
                  before |-> Watched(store)]
    /\ UNCHANGED beyondStore

----------------------------------------------------------------------------
(* Specifications *)

Init ==
    /\ physicsModel = NewPhysicsModel
    /\ pcall = NoPhysicsCall
    /\ ref = NoRef
    /\ ss = IdleSteadyState
    /\ twin = NewHybridDigitalTwin
    /\ hcall = NoTwinCall
    /\ scall = NoSequenceCall
    /\ ecall = NoEvaluation
    /\ fcall = NoMethodCall
    /\ seqModels = NewModels
    /\ store = InitialStore
    /\ timers = <<>>
    /\ stcall = NoStoreCall

\* The digital twin and its callers.
Next ==
    \/ \E call \in PredictCalls : TwinPredict(call.inputs, call.net)
    \/ \E realWorldData \in RealWorldData : TwinCalibrate(realWorldData)

Spec == Init /\ [][Next]_vars

\* The physics model on its own.
NextPhysics ==
    \/ \E inputs \in ValidStates, prev \in PreviousArgs :
          PhysPredict(inputs, prev.given, prev.value)
    \/ \E inputs \in ValidStates, duration \in Durations, initialTemp \in InitialTemps :
          PhysSimulate(inputs, duration, initialTemp)
    \/ \E inputs \in ValidStates : SteadyStateBegin(inputs)
    \/ SteadyStateIterate
    \/ SteadyStateReturn

SpecPhysics == Init /\ [][NextPhysics]_vars

\* The three sequence predictors on their own.
NextSequence ==
    \/ \E drawn \in ModelDraws : Construct(drawn)
    \/ \E net \in ForwardPasses : LSTMTrain(net)
    \/ \E sequence \in Sequences : LSTMCall(sequence, seqModels.lstm)
    \/ \E sequence \in Sequences : GRUCall(sequence, seqModels.gru)
    \/ \E sequence \in Sequences : TCNCall(sequence, seqModels.tcn)
    \/ \E model \in DOMAIN NewModels, sequence \in SequencesRepeated,
          between \in SequencesBetween :
          PredictTwice(model, sequence, between)
    \/ \E pair \in HistoryPairs : LSTMPairCall(pair[1], pair[2])

SpecSequence == Init /\ [][NextSequence]_vars

\* ModelEvaluator.evaluateModels, one awaited evaluation at a time.
NextEvaluation ==
    \/ \E nets \in WeightDraws, responseTime \in ResponseTimes :
          EvaluateModelsHybrid(nets, responseTime)
    \/ \E nets \in WeightDraws, responseTime \in ResponseTimes :
          EvaluateModelsLSTM(nets, responseTime)
    \/ \E responseTime \in ResponseTimes : EvaluateModelsPhysics(responseTime)
    \/ \E nets \in WeightDraws, responseTime \in ResponseTimes :
          EvaluateModelsGRU(nets, responseTime)
    \/ \E nets \in WeightDraws, responseTime \in ResponseTimes :
          EvaluateModelsTCN(nets, responseTime)
    \/ EvaluateModelsCompare

SpecEvaluation == Init /\ [][NextEvaluation]_vars

\* The methods taken on their own.
NextMethods ==
    \/ \E physicsTemperature \in EstimateTemperatures, lstmTemperature \in EstimateTemperatures,
          physicsWearRate \in EstimateWearRates, lstmWearRate \in EstimateWearRates :
          AnomalyCall(physicsTemperature, lstmTemperature, physicsWearRate, lstmWearRate)
    \/ \E models \in PerformanceDraws : CompareCall(models)
    \/ \E layer \in OutputLayers, contextVector \in ContextVectors :
          OutputLayerCall(layer, contextVector)
    \/ \E points \in PointLists : CalibrationCall(points)

SpecMethods == Init /\ [][NextMethods]_vars

\* The store driven from the panels: sensors, alerts, reset.
NextAlerts ==
    \/ \E net \in StoreNets : CreateStore(net)
    \/ \E set \in SensorValues : SetSensor(set[1], set[2])
    \/ UpdatePredictionsCall
    \/ \E alert \in OtherAlerts : AddAlertCall(alert)
    \/ ClearAlerts
    \/ ResetSystem

SpecAlerts == Init /\ [][NextAlerts]_vars

\* The store and its timers: the simulation loop, the race lap, reset.
NextSimulation ==
    \/ \E net \in StoreNets : CreateStore(net)
    \/ ToggleSimulation
    \/ \E i \in 1 .. Len(timers) : Simulate(i)
    \/ SimulateRaceLap
    \/ \E i \in 1 .. Len(timers) : RaceLapStep(i)
    \/ ResetSystem

SpecSimulation == Init /\ [][NextSimulation]_vars

----------------------------------------------------------------------------
(* Properties of PhysicsModel, checked under SpecPhysics *)

\* C2: for every valid operating state and every previous temperature,
\* predict returns a temperature between ambientTemp and 1200 degC, a wearRate
\* in [0.001, 0.1] mm/lap and a heatGeneration in [0, 5000] W.
C2_PredictWithinBounds ==
    pcall.op = "predict" =>
        /\ pcall.out.temperature >= pcall.inputs.ambientTemp
        /\ pcall.out.temperature <= 1200000
        /\ pcall.out.wearRate >= 100 /\ pcall.out.wearRate <= 10000
        /\ pcall.out.heatGeneration >= 0 /\ pcall.out.heatGeneration <= 50000

SteadyStateStopped == ss.pc = "done"

LastStep == Abs(ss.currentTemp - ss.previousTemp)

SteadyStateRising ==
    /\ ss.iterations >= 1 => ss.currentTemp >= ss.previousTemp
    /\ SteadyStateStopped => pcall.out.temperature >= ss.currentTemp

WarmShortStep == ss.inputs.ambientTemp >= STEADY_START_TEMP /\ ss.inputs.timeStep <= 4080

SameCallAsRef ==
    /\ ref.set /\ pcall.op = "predict"
    /\ pcall.inputs = ref.inputs /\ pcall.previousTemp = ref.previousTemp

\* C10: two predict calls with the same inputs and the same previous
\* temperature return the same output in every field, whatever calls of
\* predict, simulateOverTime and getSteadyState were made in between.
C10_PredictIsPure == SameCallAsRef => pcall.out = ref.out

\* the same call repeated after calls of all three kinds
C10_RepeatedAfterOtherCalls == SameCallAsRef /\ ref.between = PhysicsOps

\* C15: predict returns predictedLapsRemaining as a non-negative integer no
\* greater than 200, and returns 0 whenever padThickness <= 2 mm.
C15_LapsWholeAndCapped ==
    pcall.op = "predict" =>
        /\ pcall.out.predictedLapsRemaining >= 0
        /\ pcall.out.predictedLapsRemaining <= 200000
        /\ pcall.out.predictedLapsRemaining % 1000 = 0
        /\ pcall.inputs.padThickness <= 200000 => pcall.out.predictedLapsRemaining = 0

\* a predict on a pad of 1.5 mm that returned 0 laps, after a predict on a
\* thicker pad that returned a whole number of laps between 0 and 200
C15_WornPadAfterThickPad ==
    /\ pcall.op = "predict"
    /\ pcall.inputs.padThickness = 150000 /\ pcall.out.predictedLapsRemaining = 0
    /\ ref.set
    /\ ref.out.predictedLapsRemaining > 0 /\ ref.out.predictedLapsRemaining < 200000

----------------------------------------------------------------------------
(* Properties of HybridDigitalTwin, checked under Spec *)

PredictReturned == hcall.op = "predict" /\ ~hcall.r.threw

Calibrated == hcall.before.calibrationFactor < INITIAL_CALIBRATION

\* C1: after any calibrate and predict calls, every result returned by
\* predict has anomalyScore in [0, 1], confidence in [0.5, 0.95],
\* physicsWeight + mlWeight = 1 and physicsWeight <= 0.8.
C1_FusionFieldsInRange ==
    PredictReturned =>
        LET p == hcall.r.prediction
        IN  /\ p.anomalyScore >= 0 /\ p.anomalyScore <= 10000
            /\ p.confidence >= 5000 /\ p.confidence <= 9500
            /\ p.physicsWeight + p.mlWeight = 10000
            /\ p.physicsWeight <= 8000

\* a result of a calibrated twin whose physics weight sits at the cap, with
\* the largest anomaly score
C1_CappedAfterCalibrate ==
    /\ PredictReturned /\ Calibrated
    /\ hcall.before.adaptiveWeights.physics > BASE_PHYSICS_WEIGHT
    /\ hcall.r.prediction.physicsWeight = 8000
    /\ hcall.r.prediction.anomalyScore = 10000

DegradedOutput ==
    /\ hcall.r.prediction.confidence = 4000
    /\ hcall.r.prediction.anomalyScore = 8000
    /\ hcall.r.prediction.physicsWeight = 10000
    /\ hcall.r.prediction.mlWeight = 0

\* C3: predict never lets an error reach its caller; when the physics step
\* fails it returns the degraded output (confidence 0.4, anomalyScore 0.8,
\* physicsWeight 1.0, mlWeight 0.0) instead of throwing.
C3_NeverThrows ==
    hcall.op = "predict" =>
        /\ ~hcall.r.threw
        /\ PhysicsThrows(hcall.inputs.currentState) => DegradedOutput

\* C4: whenever the returned wearRate is above 0.1 mm/lap, the returned
\* predictedLapsRemaining is at most padThickness / wearRate, laps of 50 or
\* less included.
C4_LapsWithinPadLife ==
    (PredictReturned /\ hcall.r.prediction.wearRate > 10000) =>
        hcall.r.prediction.predictedLapsRemaining
            <= MulDiv(hcall.inputs.currentState.padThickness, 1000,
                      hcall.r.prediction.wearRate)

PhysicsAt(confidence) ==
    [temperature |-> hcall.r.physicsResult.temperature,
     wearRate |-> hcall.r.physicsResult.wearRate,
     predictedLapsRemaining |-> hcall.r.physicsResult.predictedLapsRemaining,
     confidence |-> confidence]

LSTMReturnedNaN ==
    /\ ~hcall.r.lstmThrew
    /\ \/ IsNaN(hcall.r.lstmReturned.temperature)
       \/ IsNaN(hcall.r.lstmReturned.wearRate)
       \/ IsNaN(hcall.r.lstmReturned.predictedLapsRemaining)

\* C7: when LSTMModel.predict throws, or returns a NaN temperature, wearRate
\* or predictedLapsRemaining, predict replaces the learned estimate by the
\* physics temperature, wearRate and predictedLapsRemaining with confidence
\* 0.2 (throw) or 0.3 (NaN), and returns a fused result.
C7_LSTMFailureFallsBackToPhysics ==
    (hcall.op = "predict" /\ ~PhysicsThrows(hcall.inputs.currentState)) =>
        /\ hcall.r.lstmThrew =>
              /\ hcall.r.lstmResult = PhysicsAt(FAILED_LSTM_CONFIDENCE)
              /\ PredictReturned /\ hcall.r.path = "fused"
        /\ LSTMReturnedNaN =>
              /\ hcall.r.lstmResult = PhysicsAt(INVALID_LSTM_CONFIDENCE)
              /\ PredictReturned /\ hcall.r.path = "fused"

\* a fused result made from an LSTM output that held NaN
C7_FusedAfterNaN ==
    /\ PredictReturned /\ LSTMReturnedNaN
    /\ hcall.r.path = "fused"
    /\ hcall.r.lstmResult.confidence = INVALID_LSTM_CONFIDENCE

\* mean(|predicted - actual| / actual) over the samples of the last calibrate
MeanRelativeError ==
    MulDiv(SumSeq([i \in 1 .. Len(hcall.realWorldData) |->
                      MulDiv(Abs(hcall.realWorldData[i].predicted
                                 - hcall.realWorldData[i].actual),
                             10000, hcall.realWorldData[i].actual)]),
           1, Len(hcall.realWorldData))

\* C16: calibrate with a non-empty sample list sets the calibration factor to
\* 1 / (1 + mean relative error) and raises the base physics weight by 0.1
\* (capped at 0.8, the learned weight set to 1 minus it) if and only if the
\* mean relative error exceeds 0.1; with an empty list it changes nothing.
C16_CalibrateUpdates ==
    hcall.op = "calibrate" =>
        IF Len(hcall.realWorldData) = 0 THEN twin = hcall.before
        ELSE /\ twin.calibrationFactor = MulDiv(10000, 10000, 10000 + MeanRelativeError)
             /\ MeanRelativeError > 1000 =>
                   /\ twin.adaptiveWeights.physics =
                         MathMin(8000, hcall.before.adaptiveWeights.physics + 1000)
                   /\ twin.adaptiveWeights.lstm = 10000 - twin.adaptiveWeights.physics
             /\ MeanRelativeError <= 1000 =>
                   twin.adaptiveWeights = hcall.before.adaptiveWeights
             /\ twin.physicsModel = hcall.before.physicsModel

\* a calibrate with two samples, 10 % and 50 % off, that raised the physics
\* weight from 0.6 to 0.7 and set the factor to 1 / 1.3
C16_RaisedByMeanOfTwo ==
    /\ hcall.op = "calibrate"
    /\ Len(hcall.realWorldData) = 2
    /\ hcall.realWorldData[1] # hcall.realWorldData[2]
    /\ MeanRelativeError = 3000
    /\ hcall.before.adaptiveWeights.physics = 6000
    /\ twin.adaptiveWeights = [physics |-> 7000, lstm |-> 3000]
    /\ twin.calibrationFactor = 7692

----------------------------------------------------------------------------
(* Properties of the sequence predictors, checked under SpecSequence *)

EmptyOrMissing(sequence) ==
    \/ ~sequence.present
    \/ sequence.hasWheelSpeed /\ Len(sequence.wheelSpeed) = 0

\* C5: LSTMModel, GRUModel and TCNModel each return temperature 450,
\* wearRate 0.1, predictedLapsRemaining 45 and confidence 0.5 for an empty or
\* missing sequence, and never raise.
C5_DefaultOnEmptyOrMissing ==
    (scall.model # "none" /\ EmptyOrMissing(scall.sequence)) =>
        /\ ~scall.threw
        /\ scall.out.temperature = 450000
        /\ scall.out.wearRate = 10000
        /\ scall.out.predictedLapsRemaining = 45000
        /\ scall.out.confidence = 5000

\* the GRU called with no sequence at all
C5_GRUOnMissing ==
    scall.model = "gru" /\ ~scall.sequence.present /\ scall.out.temperature = 450000

\* a sequence that holds at least one sample, every value a finite number
FiniteNonEmpty(sequence) ==
    /\ sequence.present /\ sequence.hasWheelSpeed
    /\ Len(sequence.wheelSpeed) > 0
    /\ ~WindowHasNaN(NormalizeInputs(sequence))

\* C13: for each of LSTMModel, GRUModel and TCNModel and every non-empty
\* sequence of finite values, predict returns temperature in [25, 1200],
\* wearRate in [0, 0.5] and predictedLapsRemaining in [0, 200].
C13_PredictionsInRange ==
    (scall.model # "none" /\ FiniteNonEmpty(scall.sequence)) =>
        /\ ~scall.threw
        /\ scall.out.temperature >= 25000 /\ scall.out.temperature <= 1200000
        /\ scall.out.wearRate >= 0 /\ scall.out.wearRate <= 50000
        /\ scall.out.predictedLapsRemaining >= 0
        /\ scall.out.predictedLapsRemaining <= 200000

\* the rows of the sequence, left-padded to n rows with its most recent row
PaddedRows(sequence, n) ==
    PadFront(NormalizeInputs(sequence),
             NormalizeInputs(sequence)[Len(sequence.wheelSpeed)], n)

\* C14: LSTMModel.predict left-pads every non-empty sequence shorter than
\* 10 samples up to 10 rows by repeating its most recent sample, and runs the
\* network on those 10 rows.
C14_ShortSequencePadded ==
    (/\ scall.model = "lstm"
     /\ scall.sequence.present /\ scall.sequence.hasWheelSpeed
     /\ Len(scall.sequence.wheelSpeed) \in 1 .. LSTM_SEQUENCE_LENGTH - 1) =>
        /\ LSTMWindow(scall.sequence) = PaddedRows(scall.sequence, LSTM_SEQUENCE_LENGTH)
        /\ scall.out.attentionWeights = LSTM_SEQUENCE_LENGTH

\* C18: predict on an LSTMModel, GRUModel or TCNModel instance leaves the
\* weights and biases of the instance unchanged, so two predict calls with
\* the same sequence on the same instance, no train call in between, return
\* the same temperature, wearRate, predictedLapsRemaining and confidence.
C18_PredictRepeats ==
    scall.repeated =>
        /\ scall.out.temperature = scall.first.temperature
        /\ scall.out.wearRate = scall.first.wearRate
        /\ scall.out.predictedLapsRemaining = scall.first.predictedLapsRemaining
        /\ scall.out.confidence = scall.first.confidence

\* a trained LSTM asked twice about a sequence of finite values, a call with
\* other samples in between, answering off the defaults
C18_RepeatedOnTrainedLSTM ==
    /\ scall.repeated /\ scall.model = "lstm"
    /\ FiniteNonEmpty(scall.sequence)
    /\ seqModels.lstm # NewModels.lstm
    /\ scall.out.temperature # GetDefaultPrediction.temperature

\* C19: for every non-empty input sequence the attentionWeights returned by
\* LSTMModel.predict hold exactly one weight per input timestep, sequences
\* shorter than 3 and longer than 10 samples included.
C19_OneWeightPerTimestep ==
    (/\ scall.model = "lstm"
     /\ scall.sequence.present /\ scall.sequence.hasWheelSpeed
     /\ Len(scall.sequence.wheelSpeed) > 0) =>
        scall.out.attentionWeights = Len(scall.sequence.wheelSpeed)

----------------------------------------------------------------------------
(* Properties of ModelEvaluator, checked under SpecEvaluation *)

\* evaluateModels has returned
Evaluated == ecall.pc = "done"

\* C11: evaluateModels on the fixed scenario set returns, for each of the
\* five models, meanAbsoluteError >= 0, rootMeanSquareError >=
\* meanAbsoluteError and r2 <= 1.
C11_MetricsOrdered ==
    Evaluated =>
        \A k \in DOMAIN ecall.models :
            /\ ecall.models[k].meanAbsoluteError >= 0
            /\ ecall.models[k].rootMeanSquareError >= ecall.models[k].meanAbsoluteError
            /\ ecall.models[k].r2 <= 10000

\* an evaluation in which every model has errors, the errors of the hybrid
\* differ between scenarios, and the GRU does worse than the mean predictor
C11_EvaluatedWithErrors ==
    /\ Evaluated
    /\ \A k \in DOMAIN ecall.models : ecall.models[k].meanAbsoluteError > 0
    /\ ecall.models.hybrid.rootMeanSquareError > ecall.models.hybrid.meanAbsoluteError
    /\ ecall.models.gru.r2 < 0

----------------------------------------------------------------------------
(* Properties of single methods, checked under SpecMethods *)

\* two calls of calculateAnomalyScore in a row
TwoAnomalyCalls ==
    fcall.op = "calculateAnomalyScore" /\ fcall.earlier.op = "calculateAnomalyScore"

\* C12: the anomaly score is monotonically non-decreasing in the divergence
\* of the two estimates: a call whose temperature difference and wear
\* difference are both at most those of another call scores at most as much.
C12_AnomalyMonotone ==
    (/\ TwoAnomalyCalls
     /\ fcall.earlier.args[1] <= fcall.args[1]
     /\ fcall.earlier.args[2] <= fcall.args[2])
        => fcall.earlier.out[1] <= fcall.out[1]

\* agreement within 50 degC followed by a 300 degC difference at the same
\* wear difference, scored lower
C12_AgreementThenDivergence ==
    /\ TwoAnomalyCalls
    /\ fcall.earlier.args[1] = 50000 /\ fcall.args[1] = 300000
    /\ fcall.earlier.args[2] = fcall.args[2]
    /\ fcall.earlier.out[1] < fcall.out[1]

\* the place of a model in the order hybrid, lstm, physics, gru, tcn
Place(key) == CHOOSE i \in 1 .. Len(ModelKeys) : ModelKeys[i] = key

\* accuracy * 0.4 + (100 - clamp(responseTime, 0, 100)) * 0.2
\* + interpretability * 0.4, in 1e-3
ClaimedScore(m) ==
    4 * m.accuracy + 2 * (10000 - MathMax(0, MathMin(10000, m.responseTime)))
    + 4 * m.interpretability

Compared == fcall.op = "compareModels"

\* C17: compareModels scores each model as accuracy * 0.4
\* + (100 - clamp(responseTime, 0, 100)) * 0.2 + interpretability * 0.4 and
\* reports as winner a model with the maximal score; on equal scores the model
\* earlier in the order hybrid, lstm, physics, gru, tcn wins, and the value
\* 'tie' is never reported.
C17_WinnerHasTopScore ==
    Compared =>
        /\ \A k \in DOMAIN fcall.args[1] :
              fcall.out[1].scores[k] = ClaimedScore(fcall.args[1][k])
        /\ fcall.out[1].winner # "tie"
        /\ fcall.out[1].winner \in DOMAIN fcall.args[1]
        /\ \A k \in DOMAIN fcall.args[1] :
              /\ fcall.out[1].scores[k] <= fcall.out[1].scores[fcall.out[1].winner]
              /\ fcall.out[1].scores[k] = fcall.out[1].scores[fcall.out[1].winner]
                    => Place(fcall.out[1].winner) <= Place(k)

\* physics, gru and tcn share the top score and physics is reported
C17_ThreeWayTieAtTheTop ==
    /\ Compared
    /\ fcall.out[1].winner = "physics"
    /\ fcall.out[1].scores.gru = fcall.out[1].scores.physics
    /\ fcall.out[1].scores.tcn = fcall.out[1].scores.physics
    /\ fcall.out[1].scores.hybrid < fcall.out[1].scores.physics
    /\ fcall.out[1].scores.lstm < fcall.out[1].scores.physics

\* bias[o] + sum over k of W[o][k] * context[k], for the output o of the
\* last output layer call
LinearHead(o) ==
    fcall.args[3][o]
    + SumSeq([k \in 1 .. Len(fcall.args[2]) |-> fcall.args[1][o][k] * fcall.args[2][k]])

\* C20: in LSTMModel.predict the output head is a linear map of the whole
\* attention context: for each output o of temperature, wearRate and laps the
\* raw value is bias[o] + sum over k of W[o][k] * context[k], with a weight
\* row and a bias of its own per output.
C20_HeadIsLinearMap ==
    fcall.op = "dotProduct" => \A o \in 1 .. 3 : fcall.out[o] = LinearHead(o)

\* the one of 5 equal-width bins of [0, 1] a confidence belongs to, 1.0 in
\* the last
EqualWidthBin(c) == IF c = 10000 THEN 5 ELSE c \div 2000 + 1

\* the predictions of the last calibration call that belong to bin i
Members(i) == {j \in 1 .. Len(fcall.args[3]) : EqualWidthBin(fcall.args[3][j]) = i}

\* those of them whose relative error is at most 10 %
CorrectMembers(i) ==
    {j \in Members(i) :
        10 * MathAbs(fcall.args[2][j] - fcall.args[1][j]) <= fcall.args[1][j]}

\* C21: computeCalibrationECE places every prediction whose confidence lies
\* in [0, 1], exactly 1.0 included, in exactly one of 5 equal-width bins, so
\* the bin counts sum to the number of predictions, and the ECE is the
\* occupancy-weighted sum of |bin accuracy - bin mean confidence|, a
\* prediction being correct iff its relative error is at most 10 %.
C21_EveryPredictionBinned ==
    fcall.op = "computeCalibrationECE" =>
        /\ \A i \in 1 .. 5 :
              /\ fcall.out[1].bins[i].count = Cardinality(Members(i))
              /\ Members(i) # {} =>
                    fcall.out[1].bins[i].accuracy =
                        MulDiv(Cardinality(CorrectMembers(i)), 10000, Cardinality(Members(i)))
        /\ SumSeq([i \in 1 .. 5 |-> fcall.out[1].bins[i].count]) = Len(fcall.args[3])
        /\ fcall.out[1].ece = EceOf(fcall.out[1].bins, Len(fcall.args[3]))

\* C22: simulateOverTime(state, duration, initialTemp) returns exactly
\* floor(duration / timeStep) outputs; output 0 is predict(state, initialTemp)
\* and each later output i is predict(state, output[i-1].temperature).
C22_TrajectoryChainsPredict ==
    pcall.op = "simulateOverTime" =>
        /\ Len(pcall.results) = pcall.duration \div pcall.inputs.timeStep
        /\ \A i \in 1 .. Len(pcall.results) :
              pcall.results[i] =
                  PhysicsPredict(physicsModel, pcall.inputs,
                                 IF i = 1 THEN pcall.previousTemp
                                 ELSE pcall.results[i - 1].temperature)

\* a trajectory of 3 outputs that heats up from step to step
C22_ThreeStepsHeating ==
    /\ pcall.op = "simulateOverTime"
    /\ Len(pcall.results) = 3
    /\ pcall.results[1].temperature < pcall.results[2].temperature
    /\ pcall.results[2].temperature < pcall.results[3].temperature

\* C23: after any sequence of calibrate and predict calls on one
\* HybridDigitalTwin the base weights satisfy physics + lstm = 1 and physics
\* in [0.6, 0.8]; the base physics weight never decreases, and predict never
\* modifies the base weights or the calibration factor.
C23_BaseWeightsKept ==
    /\ [](/\ twin.adaptiveWeights.physics + twin.adaptiveWeights.lstm = 10000
          /\ twin.adaptiveWeights.physics >= BASE_PHYSICS_WEIGHT
          /\ twin.adaptiveWeights.physics <= MAX_PHYSICS_WEIGHT)
    /\ [][/\ twin'.adaptiveWeights.physics >= twin.adaptiveWeights.physics
           /\ hcall'.op = "predict" =>
                 /\ twin'.adaptiveWeights = twin.adaptiveWeights
                 /\ twin'.calibrationFactor = twin.calibrationFactor]_vars

\* predict returned a blend on a twin that two calibrate calls took to the
\* cap of the physics weight
C23_PredictAtTheCap ==
    /\ hcall.op = "predict"
    /\ hcall.r.path = "fused"
    /\ twin.adaptiveWeights = [physics |-> MAX_PHYSICS_WEIGHT, lstm |-> 2000]
    /\ twin.calibrationFactor < INITIAL_CALIBRATION

\* predict put the physics values in the place of the learned prediction:
\* the LSTM raised, or a field of what it returned is NaN
Substituted ==
    /\ hcall.op = "predict"
    /\ hcall.r.path = "fused"
    /\ \/ hcall.r.lstmThrew
       \/ IsNaN(hcall.r.lstmReturned.temperature)
       \/ IsNaN(hcall.r.lstmReturned.wearRate)
       \/ IsNaN(hcall.r.lstmReturned.predictedLapsRemaining)

\* C24: whenever predict substitutes the physics output for a failed or
\* invalid learned prediction, the returned FusedPrediction has anomalyScore
\* exactly 0 and confidence exactly 0.5: the reduced learned confidence of
\* 0.2 or 0.3 is floored.
C24_SubstitutionUnsignalled ==
    Substituted =>
        /\ hcall.r.lstmResult.confidence \in {FAILED_LSTM_CONFIDENCE, INVALID_LSTM_CONFIDENCE}
        /\ hcall.r.prediction.anomalyScore = 0
        /\ hcall.r.prediction.confidence = MIN_CONFIDENCE

\* the LSTM returned NaN on a braking state and the physics values took its
\* place at confidence 0.3
C24_InvalidResultReplaced ==
    /\ Substituted
    /\ ~hcall.r.lstmThrew
    /\ hcall.r.lstmResult.confidence = INVALID_LSTM_CONFIDENCE
    /\ hcall.inputs.currentState.brakePressure > 0

\* the temperature combinePredictions returned to the last predict call, and
\* the one it returns with the calibration factor left at 1
BlendTemperature(self) ==
    CombinePredictions(self, hcall.r.physicsResult, hcall.r.lstmResult,
                       [physics |-> hcall.r.prediction.physicsWeight,
                        lstm |-> hcall.r.prediction.mlWeight]).temperature

CalibratedBlend == BlendTemperature(hcall.before)

UncalibratedBlend ==
    BlendTemperature([hcall.before EXCEPT !.calibrationFactor = INITIAL_CALIBRATION])

Blended == hcall.op = "predict" /\ hcall.r.path = "fused"

\* the calibration factor is in (0, 1]
FactorInRange == twin.calibrationFactor > 0 /\ twin.calibrationFactor <= INITIAL_CALIBRATION

\* a calibrate call with samples sets the factor from these samples alone;
\* every other call leaves it as it was before the call
FactorFromLastSamples ==
    IF hcall.op = "calibrate" /\ hcall.realWorldData # <<>>
    THEN twin.calibrationFactor = MulDiv(10000, 10000, 10000 + MeanRelativeError)
    ELSE twin.calibrationFactor = hcall.before.calibrationFactor

Recent(sequence) ==
    [field \in {"wheelSpeed", "brakePressure", "ambientTemp", "padThickness", "timestamp"} |->
        SliceLast(sequence[field], LSTM_SEQUENCE_LENGTH)]

\* a sequence of at least 10 samples
TenOrMore(sequence) ==
    /\ Len(sequence.wheelSpeed) >= LSTM_SEQUENCE_LENGTH
    /\ \A field \in {"brakePressure", "ambientTemp", "padThickness", "timestamp"} :
          Len(sequence[field]) = Len(sequence.wheelSpeed)

\* C25: for sequences of at least 10 samples the temperature, wearRate,
\* predictedLapsRemaining and confidence LSTMModel.predict returns depend only
\* on the most recent 10 samples: two sequences that agree on their last 10
\* samples yield the same prediction on the same instance. The forward pass
\* is a function of the window and the weights, so the two windows are the
\* same too.
C25_OnlyLastTenCount ==
    /\ scall.paired
    /\ TenOrMore(scall.sequence)
    /\ TenOrMore(scall.other.sequence)
    /\ Recent(scall.sequence) = Recent(scall.other.sequence)
    => /\ scall.out.temperature = scall.other.out.temperature
       /\ scall.out.wearRate = scall.other.out.wearRate
       /\ scall.out.predictedLapsRemaining = scall.other.out.predictedLapsRemaining
       /\ scall.out.confidence = scall.other.out.confidence
       /\ scall.sequenceData = scall.other.sequenceData

\* a history of 12 samples and one of 11 whose first sample is not a number,
\* with the same last 10, predicted on weights that clamp no output
C25_TwelveAndElevenSamples ==
    /\ scall.paired
    /\ Len(scall.sequence.wheelSpeed) = 12
    /\ Len(scall.other.sequence.wheelSpeed) = 11
    /\ IsNaN(scall.other.sequence.wheelSpeed[1])
    /\ Recent(scall.sequence) = Recent(scall.other.sequence)
    /\ ~IsNaN(scall.out.temperature)
    /\ scall.out.confidence < 9900

----------------------------------------------------------------------------
(* Properties of the store, checked under SpecAlerts *)

\* C27: after any sequence of store actions (addAlert, clearAlerts,
\* updatePredictions, resetSystem and the actions that call them) the alerts
\* list holds at most 5 entries, and they are the alerts added last since the
\* list was emptied, in the order they were added.
C27_LastFiveAlerts ==
    /\ Len(store.alerts) <= 5
    /\ store.alerts = SliceLast(stcall.added, 5)

\* an update raised six alerts, another action added a seventh, and the list
\* holds the last five of them
C27_SeventhAlertAdded ==
    /\ stcall.op = "addAlert"
    /\ Len(stcall.added) = 7
    /\ stcall.added[1].message = "ELEVATED"
    /\ Len(store.alerts) = 5
    /\ store.alerts[1] = stcall.added[3]
    /\ store.alerts[5] = stcall.added[7]

\* a 'critical' temperature alert: the two updatePredictions raises above
\* 1100 and above 1000
CriticalTemperatureAlert(alert) ==
    alert.type = "critical" /\ alert.message \in {"CRITICAL", "HIGH TEMP"}

\* C28: whenever updatePredictions completes normally with the sensor
\* temperature above 1000, the resulting alerts list contains a 'critical'
\* temperature alert, whatever other alerts the same update raises.
C28_HotUpdateKeepsCritical ==
    stcall.updated /\ store.temperature > 1000000
    => \E i \in 1 .. Len(store.alerts) : CriticalTemperatureAlert(store.alerts[i])

----------------------------------------------------------------------------
(* Properties of the store and its timers, checked under SpecSimulation *)

\* the pending simulate callbacks: each one that finds isSimulating true
\* runs its body and hands itself to setTimeout again
SimulateChains == {i \in 1 .. Len(timers) : timers[i].kind = "simulate"}

\* C29: after any sequence of toggleSimulation calls, with any timing
\* relative to the 1-second timer, at most one simulate timer chain is
\* active: while isSimulating is true at most one simulate callback is
\* pending.
C29_OneSimulateLoop ==
    store.isSimulating => Cardinality(SimulateChains) <= 1

\* C30: after resetSystem no simulation step scheduled before the reset (a
\* tick of the simulation loop or a step of a race lap) changes temperature,
\* simulationProgress, isSimulating, lapHistory or historicalData: when such
\* a callback has run with no action called since the reset, the five fields
\* are what it met.
C30_ResetHolds ==
    stcall.stale => Watched(store) = stcall.before

====
